---- MODULE Spec2Model ----
(***************************************************************************)
(* Job-listing harvester: extraction, convergence loops, browser fetchers, *)
(* the per-company runs and the batch over the companies, as state         *)
(* machines.                                                               *)
(*                                                                         *)
(* Strings of the program are sequences of one-character strings, so that  *)
(* normalisation, stripping and regex refinement are computed, not assumed.*)
(***************************************************************************)
EXTENDS Integers, Sequences, FiniteSets, TLC

\* ---------------------------------------------------------------- bounds
\* Number of pages a source serves before its payload sequence settles.
MaxPrefix == 2
\* Cap on the number of fetches of one run (guards only; a converging loop never reaches it).
MaxFetches == 6

\* ---------------------------------------------------------------- strings
NBSP == "nbsp"
Whitespace == {" ", "\n", NBSP}
Digits == {"1", "2", "3", "4", "5", "6", "7", "8", "9"}

Min(S) == CHOOSE x \in S : \A y \in S : x <= y
Max(S) == CHOOSE x \in S : \A y \in S : x >= y

\* str.replace("\xa0", " ")
RECURSIVE replace_nbsp(_)
replace_nbsp(s) ==
    IF s = <<>> THEN <<>>
    ELSE <<(IF Head(s) = NBSP THEN " " ELSE Head(s))>> \o replace_nbsp(Tail(s))

\* str.splitlines(): a line break ends a line; no empty last line.
RECURSIVE splitlines_from(_, _, _)
splitlines_from(s, cur, acc) ==
    IF s = <<>> THEN (IF cur = <<>> THEN acc ELSE Append(acc, cur))
    ELSE IF Head(s) = "\n" THEN splitlines_from(Tail(s), <<>>, Append(acc, cur))
    ELSE splitlines_from(Tail(s), Append(cur, Head(s)), acc)

splitlines(s) == splitlines_from(s, <<>>, <<>>)

\* " ".join(parts)
RECURSIVE join(_, _)
join(sep, parts) ==
    IF parts = <<>> THEN <<>>
    ELSE IF Len(parts) = 1 THEN parts[1]
    ELSE parts[1] \o sep \o join(sep, Tail(parts))

RECURSIVE lstrip(_)
lstrip(s) ==
    IF s = <<>> THEN <<>>
    ELSE IF Head(s) \in Whitespace THEN lstrip(Tail(s)) ELSE s

RECURSIVE rstrip(_)
rstrip(s) ==
    IF s = <<>> THEN <<>>
    ELSE IF s[Len(s)] \in Whitespace THEN rstrip(SubSeq(s, 1, Len(s) - 1)) ELSE s

\* str.strip()
strip(s) == rstrip(lstrip(s))

\* str.split(): the maximal runs of non-whitespace
RECURSIVE split_from(_, _, _)
split_from(s, cur, acc) ==
    IF s = <<>> THEN (IF cur = <<>> THEN acc ELSE Append(acc, cur))
    ELSE IF Head(s) \in Whitespace
         THEN split_from(Tail(s), <<>>, IF cur = <<>> THEN acc ELSE Append(acc, cur))
         ELSE split_from(Tail(s), Append(cur, Head(s)), acc)

split(s) == split_from(s, <<>>, <<>>)

\* " ".join(s.replace("\xa0", " ").splitlines()).strip()
join_lines(s) == strip(join(<<" ">>, splitlines(replace_nbsp(s))))

\* utils.clean_string
clean_string_trimming_one(input_string) ==
    IF input_string # <<>> /\ Head(input_string) \in Whitespace
    THEN Tail(input_string) ELSE input_string
clean_string(input_string) ==
    strip(join(<<" ">>, split(join_lines(input_string))))

\* str.lower() on the letters the model uses
lower_char(c) ==
    CASE c = "P" -> "p"
      [] c = "T" -> "t"
      [] OTHER -> c

RECURSIVE lower(_)
lower(s) == IF s = <<>> THEN <<>> ELSE <<lower_char(Head(s))>> \o lower(Tail(s))

\* ---------------------------------------------------------------- id regex
\* The configured id regexes have the shape <literal>(\d+); "" is "no regex".
regex_literal(id_regex) ==
    CASE id_regex = "j(\\d+)" -> <<"j">>
      [] id_regex = "(\\d+)" -> <<>>
      [] OTHER -> <<>>

\* positions of s where lit followed by at least one digit starts
literal_starts(lit, s) ==
    {p \in 1..Len(s) :
        /\ p + Len(lit) <= Len(s)
        /\ SubSeq(s, p, p + Len(lit) - 1) = lit
        /\ s[p + Len(lit)] \in Digits}

regex_starts(id_regex, s) == literal_starts(regex_literal(id_regex), s)

\* re.search(id_regex, s) is not None
re_search_matches(id_regex, s) == regex_starts(id_regex, s) # {}

\* the greedy run of digits of s that starts at b
digit_run_single(s, b) == <<s[b]>>
digit_run(s, b) == SubSeq(s, b, Max({q \in b..Len(s) : \A r \in b..q : s[r] \in Digits}))

\* re.search(id_regex, s).group(1): the digits of the leftmost match
re_search_group1(id_regex, s) ==
    digit_run(s, Min(regex_starts(id_regex, s)) + Len(regex_literal(id_regex)))

\* ---------------------------------------------------------------- HTML extraction
\* An HTML payload is the sequence of nodes soup.find_all(main_tag, attrs) returns.
\* A node records what the tag queries and attribute reads on it give:
\*   title_child / id_child: "absent" (no descendant with that tag name),
\*       "other" (a descendant with the tag name, none matching the attrs filter),
\*       "match" (find_single_tag finds one)
\*   title: text of the title tag (of the node itself when no title tag is configured)
\*   id_text: text of the id tag;  has_id_attr, id: the attribute at attr_location
Node(title_child, title, id_child, id_text, has_id_attr, id) ==
    [title_child |-> title_child, title |-> title, id_child |-> id_child,
     id_text |-> id_text, has_id_attr |-> has_id_attr, id |-> id]

\* HTMLJobContainerMetadata: which locators the configuration sets.
HtmlMetadata(title_tag, id_tag, id_tag_attr_location, id_regex) ==
    [kind |-> "html", title_tag |-> title_tag, id_tag |-> id_tag,
     id_tag_attr_location |-> id_tag_attr_location, id_regex |-> id_regex,
     country |-> FALSE, country_target |-> <<>>]

\* The result of a call that may raise: exc is "none" or the exception's class.
Returned(v) == [exc |-> "none", val |-> v]
Raised(e) == [exc |-> e, val |-> <<>>]

\* utils.find_multiple_tags: the nodes that hold every required child tag name
RECURSIVE find_multiple_tags(_, _)
find_multiple_tags(first_results, md) ==
    IF first_results = <<>> THEN <<>>
    ELSE (IF /\ (md.title_tag => Head(first_results).title_child # "absent")
             /\ (md.id_tag => Head(first_results).id_child # "absent")
          THEN <<Head(first_results)>> ELSE <<>>)
         \o find_multiple_tags(Tail(first_results), md)

\* `if not title_processed_string: raise ValueError`
nonempty_title(title_processed_string) ==
    IF title_processed_string = <<>> THEN Raised("ValueError")
    ELSE Returned(title_processed_string)

\* HTMLJobContainer.get_title
get_title(md, soup) ==
    IF md.title_tag /\ soup.title_child # "match"
    THEN Raised("AttributeError")
    ELSE nonempty_title(clean_string(soup.title))

\* soup.attrs[attr_location].strip()
attr_id(soup) ==
    IF soup.has_id_attr THEN Returned(strip(soup.id)) ELSE Raised("KeyError")

\* `if not id_string: raise ValueError`
nonempty_id(id_string) ==
    IF id_string.exc = "none" /\ id_string.val = <<>> THEN Raised("ValueError")
    ELSE id_string

\* HTMLJobContainer.get_job_id
get_job_id_raw_title(md, soup, title) == nonempty_id(Returned(soup.title))
get_job_id(md, soup, title) ==
    nonempty_id(
        IF md.id_tag
        THEN IF soup.id_child # "match" THEN Raised("AttributeError")
             ELSE IF md.id_tag_attr_location THEN attr_id(soup)
                  ELSE Returned(soup.id_text)
        ELSE IF md.id_tag_attr_location THEN attr_id(soup)
             ELSE Returned(strip(title)))

\* HTMLJobContainer.get_refined_id
get_refined_id(md, job_id) ==
    IF md.id_regex # ""
    THEN IF re_search_matches(md.id_regex, job_id)
         THEN Returned(re_search_group1(md.id_regex, job_id))
         ELSE Raised("AttributeError")
    ELSE Returned(job_id)

Job(job_id, refined_id, title, has_refined) ==
    [job_id |-> job_id, refined_id |-> refined_id, title |-> title,
     has_refined |-> has_refined]

\* HTMLJobContainer.__init__: title, then job_id, then refined_id
HTMLJobContainer(md, soup) ==
    LET with_refined_id(title, job_id, refined_id) ==
            IF refined_id.exc # "none" THEN refined_id
            ELSE Returned(Job(job_id.val, refined_id.val, title.val, TRUE))
        with_job_id(title, job_id) ==
            IF job_id.exc # "none" THEN job_id
            ELSE with_refined_id(title, job_id, get_refined_id(md, job_id.val))
        with_title(title) ==
            IF title.exc # "none" THEN title
            ELSE with_job_id(title, get_job_id(md, soup, title.val))
    IN  with_title(get_title(md, soup))

Traceback(e) == "Traceback: " \o e

\* The try/except around one container: ValueError and AttributeError skip it,
\* any other exception is recorded.
container_tried_reporting(acc, made) ==
    IF made.exc = "none" THEN [acc EXCEPT !.jobs = Append(@, made.val)]
    ELSE [acc EXCEPT !.errors = Append(@, Traceback(made.exc))]
container_tried(acc, made) ==
    IF made.exc = "none" THEN [acc EXCEPT !.jobs = Append(@, made.val)]
    ELSE IF made.exc \in {"ValueError", "AttributeError"} THEN acc
    ELSE [acc EXCEPT !.errors = Append(@, Traceback(made.exc))]

\* CompanyData.extract_jobs_from_html, the loop over the containers
RECURSIVE extract_loop(_, _, _)
extract_loop(md, job_container_soups, acc) ==
    IF job_container_soups = <<>> THEN acc
    ELSE extract_loop(md, Tail(job_container_soups),
                      container_tried(acc, HTMLJobContainer(md, Head(job_container_soups))))

\* CompanyData.extract_jobs_from_html: [jobs, errors appended to self.errors]
extract_jobs_from_html(md, nodes) ==
    extract_loop(md, find_multiple_tags(nodes, md), [jobs |-> <<>>, errors |-> <<>>])

\* ---------------------------------------------------------------- JSON extraction
\* JSON values carry their Python type: dict (a function on keys), list, str, none.
JDict(f) == [t |-> "dict", v |-> f]
JList(l) == [t |-> "list", v |-> l]
JStr(s) == [t |-> "str", v |-> s]
JNone == [t |-> "none", v |-> <<>>]

\* The dotted paths of the JSON configuration, already split at the dots.
JobsPath == <<"data", "jobs">>
TitlePath == <<"title">>
IdPath == <<"id">>
CountryPath == <<"country">>

\* JSONJobContainerMetadata; country says whether a country filter is configured.
JsonMetadata(country, country_target) ==
    [kind |-> "json", title_tag |-> FALSE, id_tag |-> FALSE,
     id_tag_attr_location |-> FALSE, id_regex |-> "",
     country |-> country, country_target |-> country_target]

\* utils.get_by_path, the walk over the keys
RECURSIVE get_by_path_walk(_, _)
get_by_path_walk(d, keys) ==
    IF keys = <<>> THEN Returned(d)
    ELSE IF d.t = "dict"
         THEN get_by_path_walk(IF Head(keys) \in DOMAIN d.v THEN d.v[Head(keys)] ELSE JNone,
                               Tail(keys))
         ELSE IF Head(keys) = ""
              THEN (IF d.t = "none" THEN Raised("TypeError")
                    ELSE IF d.v = <<>> THEN Raised("IndexError")
                    ELSE get_by_path_walk(IF d.t = "list" THEN d.v[1] ELSE JStr(<<d.v[1]>>),
                                          Tail(keys)))
              ELSE Returned(JNone)

\* utils.get_by_path
get_by_path(d, path) ==
    IF d.t = "list" THEN Returned(d) ELSE get_by_path_walk(d, path)

\* JSONJobContainer.__init__: title, id and the lowercased country
JSONJobContainer(md, container_dict) ==
    LET filtered == md.country /\ md.country_target # <<>>
        made(title, job_id, country) ==
            IF title.exc # "none" THEN title
            ELSE IF job_id.exc # "none" THEN job_id
            ELSE IF country.exc # "none" THEN country
            ELSE IF filtered /\ country.val.t # "str" THEN Raised("AttributeError")
            ELSE Returned([job_id |-> job_id.val, refined_id |-> job_id.val,
                           title |-> title.val, has_refined |-> FALSE,
                           country |-> IF country.val.t = "str"
                                       THEN JStr(lower(country.val.v)) ELSE JNone])
    IN  made(get_by_path(container_dict, TitlePath),
             get_by_path(container_dict, IdPath),
             IF filtered THEN get_by_path(container_dict, CountryPath)
             ELSE Returned(JNone))

\* JSONJobContainer.has_valid_country
has_valid_country(md, job) ==
    IF job.country.t = "str" /\ job.country.v # <<>>
    THEN lower(strip(md.country_target)) = job.country.v
    ELSE TRUE

\* CompanyData.extract_jobs_from_json, the loop over the elements: an exception
\* raised while building a container leaves the method.
RECURSIVE extract_json_loop(_, _, _)
container_filtered(md, rest, acc, potential_container) ==
    IF potential_container.exc # "none" THEN potential_container
    ELSE extract_json_loop(md, rest,
             IF has_valid_country(md, potential_container.val)
             THEN Append(acc, potential_container.val) ELSE acc)

extract_json_loop(md, jobs_list, acc) ==
    IF jobs_list = <<>> THEN Returned(acc)
    ELSE container_filtered(md, Tail(jobs_list), acc, JSONJobContainer(md, Head(jobs_list)))

\* `if isinstance(jobs_list, list): for job_dict in jobs_list: ...`
jobs_of_list(md, jobs_list) ==
    IF jobs_list.exc # "none" THEN jobs_list
    ELSE IF jobs_list.val.t = "list" THEN extract_json_loop(md, jobs_list.val.v, <<>>)
    ELSE Returned(<<>>)

\* CompanyData.extract_jobs_from_json
extract_jobs_from_json(md, json_dict) ==
    jobs_of_list(md, get_by_path(json_dict, JobsPath))

\* ---------------------------------------------------------------- responses
\* What an endpoint returns: kind "html" (markup holding nodes), "json" (a JSON
\* text holding value; nodes are the containers of the HTML fragment it wraps,
\* if any) or "garbage" (text that is neither).
Response(kind, nodes, value) == [kind |-> kind, nodes |-> nodes, value |-> value]

HtmlLoc == <<"html">>

jId(d) == <<"j", d>>
rId(d) == <<"r", d>>
\* A well-formed container: title tag found, id read from an attribute of the container.
N(id, title) == Node("match", title, "absent", <<>>, TRUE, id)

n_j1_d == N(jId("1"), <<"d">>)
n_j2_q == N(jId("2"), <<"q">>)
n_r1_d == N(rId("1"), <<" ", "d", "\n">>)
n_j1_q == N(jId("1"), <<"q">>)
n_empty_id == N(<<" ">>, <<"d">>)
n_empty_title == N(jId("2"), <<NBSP>>)
n_no_attr == Node("match", <<"d">>, "absent", <<>>, FALSE, <<>>)
n_no_title_tag == Node("absent", <<"q">>, "absent", <<>>, TRUE, jId("3"))

\* Two overlapping pages of five containers each, three ids in common.
PageA == <<N(jId("1"), <<"d">>), N(jId("2"), <<"d">>), N(jId("3"), <<"d">>),
           N(jId("4"), <<"d">>), N(jId("5"), <<"d">>)>>
PageB == <<N(jId("3"), <<"d">>), N(jId("4"), <<"d">>), N(jId("5"), <<"d">>),
           N(jId("6"), <<"d">>), N(jId("7"), <<"d">>)>>

HtmlPages ==
    { <<>>,
      <<n_j1_d>>,
      <<n_j1_d, n_j2_q>>,
      <<n_r1_d, n_j1_q>>,
      <<n_empty_id, n_empty_title, n_no_title_tag>>,
      <<n_no_attr, n_j2_q>>,
      <<n_empty_title, n_j1_d, n_empty_id>>,
      PageA,
      PageB }

Garbage == Response("garbage", <<>>, JNone)

HtmlPool == {Response("html", nodes, JNone) : nodes \in HtmlPages} \cup {Garbage}

\* A JSON element of a jobs list
Elem(id, title, country) ==
    JDict([id |-> JStr(id), title |-> JStr(title), country |-> JStr(country)])

JobsDoc(elems) == JDict([data |-> JDict([jobs |-> JList(elems)])])

JsonValues ==
    { JobsDoc(<<>>),
      JobsDoc(<<Elem(<<"1">>, <<"d">>, <<"P", "T", " ">>)>>),
      JobsDoc(<<Elem(<<"1">>, <<"d">>, <<"P", "T", " ">>), Elem(<<"2">>, <<"q">>, <<"e", "s">>)>>),
      JobsDoc(<<Elem(<<"2">>, <<"q">>, <<"e", "s">>), Elem(<<"1">>, <<"q">>, <<"p", "t">>)>>),
      JobsDoc(<<Elem(<<"3">>, <<"d">>, <<>>),
                JDict([id |-> JStr(<<"4">>), title |-> JStr(<<"d">>)])>>),
      JobsDoc(<<Elem(<<"3">>, <<"d">>, <<>>), Elem(<<"1">>, <<"q">>, <<"p", "t">>)>>),
      JobsDoc(<<Elem(<<>>, <<"d">>, <<"p", "t">>),
                JDict([id |-> JStr(<<"5">>), country |-> JStr(<<"p", "t">>)])>>),
      JDict([data |-> JNone]),
      JDict([data |-> JList(<<Elem(<<"1">>, <<"d">>, <<"p", "t">>)>>),
             total |-> JStr(<<"1">>)]) }

JsonPool == {Response("json", <<>>, v) : v \in JsonValues} \cup {Garbage}

\* JSON wrapping an HTML fragment at HtmlLoc, or lacking it
JsonHtmlPool ==
    {Response("json", nodes, JDict([html |-> JStr(<<"h">>)])) :
        nodes \in { <<>>, <<n_j1_d>>, <<n_j1_d, n_j2_q>>, <<n_r1_d, n_j1_q>> }}
    \cup {Response("json", <<>>, JDict([other |-> JNone])), Garbage}

DigitChars == <<"1", "2", "3", "4", "5", "6", "7", "8", "9">>

\* The n-th page of a source that never repeats itself: one container, id never seen.
FreshResponse(response_format, n) ==
    CASE response_format = "html" ->
            Response("html", <<N(jId(DigitChars[n]), <<DigitChars[n]>>)>>, JNone)
      [] response_format = "json" ->
            Response("json", <<>>,
                     JobsDoc(<<Elem(<<DigitChars[n]>>, <<"d">>, <<"p", "t">>)>>))
      [] OTHER ->
            Response("json", <<N(jId(DigitChars[n]), <<DigitChars[n]>>)>>,
                     JDict([html |-> JStr(<<"h">>)]))

Pool(response_format) ==
    CASE response_format = "html" -> HtmlPool
      [] response_format = "json" -> JsonPool
      [] OTHER -> JsonHtmlPool

\* ---------------------------------------------------------------- CompanyAPI.extract_jobs
\* [exc, jobs, errors]: exc is the exception that leaves extract_jobs.
Extracted(jobs, errors) == [exc |-> "none", jobs |-> jobs, errors |-> errors]
ExtractRaised(e) == [exc |-> e, jobs |-> <<>>, errors |-> <<>>]

\* `return self.extract_jobs_from_json(response_dict)`
from_json(r) == IF r.exc # "none" THEN ExtractRaised(r.exc) ELSE Extracted(r.val, <<>>)

\* `return self.extract_jobs_from_html(response_html)`
from_html(r) == Extracted(r.jobs, r.errors)

\* BeautifulSoup(response_html) of what get_by_path found at html_loc
from_html_at(md, response_html, nodes) ==
    IF response_html.exc # "none" THEN ExtractRaised(response_html.exc)
    ELSE IF response_html.val.t # "str" THEN ExtractRaised("TypeError")
    ELSE from_html(extract_jobs_from_html(md, nodes))

extract_jobs(response_format, md, response) ==
    CASE response_format = "json" ->
            IF response.kind # "json" THEN ExtractRaised("JSONDecodeError")
            ELSE from_json(extract_jobs_from_json(md, response.value))
      [] response_format = "json+html" ->
            IF response.kind # "json" THEN ExtractRaised("JSONDecodeError")
            ELSE from_html_at(md, get_by_path(response.value, HtmlLoc), response.nodes)
      [] OTHER ->
            from_html(extract_jobs_from_html(
                          md, IF response.kind = "html" THEN response.nodes ELSE <<>>))

\* ---------------------------------------------------------------- state
VARIABLES
    cls,                 \* the class whose run this is: "api" (CompanyAPI), "scrape"
                         \* (CompanyScrape), "legacy" (Company)
    cfg,                 \* the company's configuration
    pc,                  \* position of the run
    exception,           \* the exception that left the run, "none" if none did
    jobs_dict,           \* CompanyData.jobs_dict
    errors,              \* CompanyData.errors
    job_containers,      \* the list of containers extracted so far
    job_containers_set,  \* CompanyAPI.fetch_results: the set of their keys
    job_nr_old,          \* CompanyAPI.fetch_results: size of the set before the fetch
    old_nr_results,      \* Company.fetch_results_of_pagination
    current_stage,       \* the fetcher's pagination cursor
    starting_attempts,   \* BrowserInteraction.starting_attempts
    driver,              \* the browser driver: "none", "running", "stopped"
    html_list,           \* PaginationInteraction.html_list
    html,                \* LoadMoreInteraction.html, SimplePageInteraction.html
    elements_set,        \* PaginationInteraction.fetch_html: texts of the elements seen
    nr_elements_old,     \* PaginationInteraction.fetch_html
    nr_content_tags_old, \* LoadMoreInteraction.fetch_html
    dom,                 \* the page the browser shows, as last measured
    button,              \* more_button, next_page_button: "none" (not looked up yet),
                         \* "absent" (the lookup gave None), "found"
    killed,              \* kill_chrome_processes has run
    run_exit,            \* how BrowserInteraction.run left: "none", "returned", "raised"
    attempts_made,       \* history: number of uc.start calls
    fetched,             \* history: the payloads fetched (pages measured), in order
    stages,              \* history: the cursor each fetch (each button lookup) used
    nadvance,            \* history: number of advances (increase_stage_number, clicks)
    prefixLen,           \* the source: pages served before its payloads settle
    tailKind,            \* the source: "constant", "empty" or "fresh" from then on
    company_list,        \* Orchestrator.company_info_dict["companies"]
    company_index,       \* Orchestrator.scrape: position of its for loop
    today_dict,          \* Orchestrator.today_dict
    yesterday_dict,      \* Orchestrator.yesterday_dict
    batch,               \* Orchestrator.scrape: "none", "running", "finished", "aborted"
    own_errors,          \* history: the error list each company's run ended with
    today_file,          \* the file TODAY_FILENAME
    yesterday_file,      \* the file YESTERDAY_FILENAME
    history_dict,        \* Orchestrator.history_dict, as written to HISTORY_FILENAME
    day,                 \* Orchestrator.today: the number of the day of the run
    emails,              \* history: the arguments of each email_new_results call
    refined,             \* history: today_dict and yesterday_dict at each refine
    fetchers,            \* api_fetcher: the runs of main, one per company
    own_jobs,            \* history: the jobs_dict each company's run of the day ended with
    args,                \* a call of a utility function: its arguments
    result               \* what the call returned, once made

companyVars == <<jobs_dict, errors, job_containers>>
apiVars == <<job_containers_set, job_nr_old>>
browserVars == <<starting_attempts, driver, html_list, html, elements_set,
                 nr_elements_old, nr_content_tags_old, dom, button, killed, run_exit,
                 attempts_made>>
browserVarsButExit == <<starting_attempts, driver, html_list, html, elements_set,
                        nr_elements_old, nr_content_tags_old, dom, button, killed,
                        attempts_made>>
browserVarsButDriver == <<starting_attempts, html_list, html, elements_set,
                          nr_elements_old, nr_content_tags_old, dom, button, killed,
                          run_exit, attempts_made>>
histVars == <<fetched, stages, nadvance>>
sourceVars == <<cls, cfg, prefixLen, tailKind>>
callVars == <<args, result>>
dayVars == <<today_file, yesterday_file, history_dict, day, emails, refined, fetchers,
             own_jobs>>
batchVars == <<company_list, company_index, today_dict, yesterday_dict, batch, own_errors,
               dayVars>>

vars == <<pc, exception, current_stage, old_nr_results, companyVars, apiVars, browserVars,
          histVars, sourceVars, batchVars, callVars>>

NoResults == "No results were retrieved; check the website"
IdRefinementError == "Something wrong with the id refinement of the company"
StartProblem == "Problem while starting the browser"
HtmlNotFetched == "The HTML was not successfully fetched"
NoPageFetched == "None of the pages' HTML could be fetched"
PageNotFetched == "The HTML of one of the pages was not successfully fetched"
BrowserError == "browser error"

STARTING_ATTEMPTS_LIMIT == 5

\* A page source: markup holding nodes, or the empty string, or None.
Source(nodes) == Response("html", nodes, JNone)
EmptySource == Response("empty", <<>>, JNone)
NoneSource == Response("none", <<>>, JNone)
\* What the browser can show: the nodes a query finds on the page and what
\* page.get_content() gives for it (its markup, or nothing).
Shown(nodes, content) == [nodes |-> nodes, content |-> content]

\* `not html`
falsy(src) == src.kind \in {"empty", "none"}

\* ---------------------------------------------------------------- CompanyAPI.fetch_results
ApiConfig(response_format, iterative, md, start_point, increment) ==
    [response_format |-> response_format, iterative |-> iterative, md |-> md,
     start_point |-> start_point, increment |-> increment]

\* The configurations of API companies the model runs.
ApiConfigs ==
    { ApiConfig("html", it, HtmlMetadata(TRUE, FALSE, TRUE, ""), 1, 1) : it \in BOOLEAN }
    \cup
    { ApiConfig("html", TRUE, HtmlMetadata(TRUE, FALSE, TRUE, "j(\\d+)"), 0, 10),
      ApiConfig("html", TRUE, HtmlMetadata(TRUE, FALSE, TRUE, "(\\d+)"), 1, 1),
      ApiConfig("html", TRUE, HtmlMetadata(TRUE, FALSE, FALSE, ""), 1, 1),
      ApiConfig("json", TRUE, JsonMetadata(FALSE, <<>>), 1, 1),
      ApiConfig("json", TRUE, JsonMetadata(TRUE, <<"P", "t", " ">>), 0, 10),
      ApiConfig("json", FALSE, JsonMetadata(TRUE, <<"P", "t", " ">>), 1, 1),
      ApiConfig("json+html", TRUE, HtmlMetadata(TRUE, FALSE, TRUE, "(\\d+)"), 1, 1) }

\* The key of a container: `job.refined_id if hasattr(job, "refined_id") else job.job_id`
Key(job) == IF job.has_refined THEN job.refined_id ELSE job.job_id

KeysOf(jobs) == {Key(jobs[i]) : i \in 1..Len(jobs)}

\* job_containers.extend(...)
extend_dropping(containers, new_containers) == new_containers
extend_unseen(containers, new_containers) ==
    LET Unseen(job) == Key(job) \notin KeysOf(containers)
    IN  containers \o SelectSeq(new_containers, Unseen)
extend(containers, new_containers) == containers \o new_containers

\* In a dict comprehension over a list, which of the entries with one key is kept.
comprehension_keeps_first(indices) == Min(indices)
comprehension_keeps(indices) == Max(indices)

\* { Key(job): job.title for job in job_containers }
jobs_dict_by_key(jobs) ==
    [k \in KeysOf(jobs) |->
        jobs[comprehension_keeps({i \in 1..Len(jobs) : Key(jobs[i]) = k})].title]

\* `if job_nr_new == job_nr_old: break`
converged_on_loss(job_nr_new, job_nr_old_) == job_nr_new < job_nr_old_
converged(job_nr_new, job_nr_old_) == job_nr_new = job_nr_old_

\* IterativeAPIInteraction.increase_stage_number
increase_stage_number_by_one(stage, increment) == stage + 1
increase_stage_number_twice(stage, increment) == stage + 2 * increment
increase_stage_number(stage, increment) == stage + increment

\* `if not self.jobs_dict: self.errors.append(...)`
with_no_results_error(errs, d) ==
    IF DOMAIN d = {} THEN Append(errs, NoResults) ELSE errs

\* the pool's responses that hold no record
EmptyResponses(response_format, md) ==
    {r \in Pool(response_format) :
        extract_jobs(response_format, md, r) = Extracted(<<>>, <<>>)}

\* What the endpoint can answer to the next fetch.
ServerResponses ==
    IF Len(fetched) < prefixLen THEN Pool(cfg.response_format)
    ELSE CASE tailKind = "constant" ->
                  IF Len(fetched) = prefixLen THEN Pool(cfg.response_format)
                  ELSE {fetched[prefixLen + 1]}
           [] tailKind = "empty" -> EmptyResponses(cfg.response_format, cfg.md)
           [] OTHER -> {FreshResponse(cfg.response_format, Len(fetched) + 1)}

InitCompany ==
    /\ jobs_dict = <<>>
    /\ errors = <<>>
    /\ job_containers = <<>>
    /\ exception = "none"
    /\ fetched = <<>>
    /\ stages = <<>>
    /\ nadvance = 0

InitNoApi == job_containers_set = {} /\ job_nr_old = 0 /\ old_nr_results = 0

InitNoBrowser ==
    /\ starting_attempts = 1
    /\ driver = "none"
    /\ html_list = <<>>
    /\ html = NoneSource
    /\ elements_set = {}
    /\ nr_elements_old = 0
    /\ nr_content_tags_old = 0
    /\ dom = Shown(<<>>, NoneSource)
    /\ button = "none"
    /\ killed = FALSE
    /\ run_exit = "none"
    /\ attempts_made = 0

InitNoCall == args = <<>> /\ result = <<>>

\* A file the orchestrator keeps: absent, empty (size 0), or the text of a
\* json.dump, held as what the text says: the company names, the
\* (company, job key, title) members and the (company, position, message) members.
JsonFile(state, names, listings, error_members) ==
    [state |-> state, names |-> names, listings |-> listings, errors |-> error_members]

AbsentFile == JsonFile("absent", {}, {}, {})
EmptyFile == JsonFile("empty", {}, {}, {})

InitNoDays ==
    /\ today_file = AbsentFile
    /\ yesterday_file = AbsentFile
    /\ history_dict = <<>>
    /\ day = 0
    /\ emails = <<>>
    /\ refined = <<>>
    /\ fetchers = <<>>
    /\ own_jobs = <<>>

InitNoBatch ==
    /\ InitNoDays
    /\ company_list = <<>>
    /\ company_index = 0
    /\ today_dict = <<>>
    /\ yesterday_dict = <<>>
    /\ batch = "none"
    /\ own_errors = <<>>

InitApi ==
    /\ cls = "api"
    /\ cfg \in ApiConfigs
    /\ pc = IF cfg.iterative THEN "loop" ELSE "single"
    /\ current_stage = cfg.start_point
    /\ InitCompany /\ InitNoApi /\ InitNoBrowser /\ InitNoBatch /\ InitNoCall
    /\ IF cfg.iterative
       THEN prefixLen \in 0..MaxPrefix /\ tailKind \in {"constant", "empty", "fresh"}
       ELSE prefixLen = 0 /\ tailKind = "constant"

\* The end of fetch_results: build jobs_dict, report an empty result.
FetchResultsEnd(containers, errs) ==
    /\ jobs_dict' = jobs_dict_by_key(containers)
    /\ errors' = with_no_results_error(errs, jobs_dict_by_key(containers))
    /\ pc' = "done"

\* fetch_response raises (requests: connection error, timeout): the exception
\* leaves fetch_results.
ApiFetchFails ==
    /\ cls = "api" /\ pc \in {"loop", "single"}
    /\ Len(fetched) < MaxFetches
    /\ pc' = "raised"
    /\ exception' = "ConnectionError"
    /\ UNCHANGED <<current_stage, old_nr_results, companyVars, apiVars, browserVars,
                   histVars, sourceVars, callVars, batchVars>>

\* One pass of the `while True` of fetch_results, once the response is extracted.
IteratePass(ex) ==
    IF ex.exc # "none"
    THEN /\ pc' = "raised"
         /\ exception' = ex.exc
         /\ UNCHANGED <<companyVars, apiVars, current_stage, nadvance>>
    ELSE LET containers == extend(job_containers, ex.jobs)
             job_nr_new == Cardinality(job_containers_set \cup KeysOf(containers))
         IN  /\ job_containers' = containers
             /\ job_containers_set' = job_containers_set \cup KeysOf(containers)
             /\ exception' = exception
             /\ IF converged(job_nr_new, job_nr_old)
                THEN /\ FetchResultsEnd(containers, errors \o ex.errors)
                     /\ UNCHANGED <<job_nr_old, current_stage, nadvance>>
                ELSE /\ current_stage' = increase_stage_number(current_stage, cfg.increment)
                     /\ nadvance' = nadvance + 1
                     /\ job_nr_old' = job_nr_new
                     /\ errors' = errors \o ex.errors
                     /\ UNCHANGED <<pc, jobs_dict>>

\* fetch_results on an iterative source: fetch, extract, test for convergence.
ApiIterate ==
    /\ cls = "api" /\ pc = "loop"
    /\ Len(fetched) < MaxFetches
    /\ \E response \in ServerResponses :
        /\ fetched' = Append(fetched, response)
        /\ stages' = Append(stages, current_stage)
        /\ IteratePass(extract_jobs(cfg.response_format, cfg.md, response))
    /\ UNCHANGED <<old_nr_results, browserVars, sourceVars, callVars, batchVars>>

\* fetch_results on a single-request source, once the response is extracted.
SinglePass(ex) ==
    IF ex.exc # "none"
    THEN /\ pc' = "raised"
         /\ exception' = ex.exc
         /\ UNCHANGED companyVars
    ELSE /\ job_containers' = extend(job_containers, ex.jobs)
         /\ exception' = exception
         /\ FetchResultsEnd(extend(job_containers, ex.jobs), errors \o ex.errors)

\* fetch_results on a single-request source.
ApiSingle ==
    /\ cls = "api" /\ pc = "single"
    /\ \E response \in ServerResponses :
        /\ fetched' = Append(fetched, response)
        /\ stages' = Append(stages, current_stage)
        /\ SinglePass(extract_jobs(cfg.response_format, cfg.md, response))
    /\ UNCHANGED <<apiVars, old_nr_results, current_stage, nadvance, browserVars,
                   sourceVars, callVars, batchVars>>

\* ---------------------------------------------------------------- CompanyScrape.scrape_results
\* get_results_loading_type: the loading type for the keys company_dict holds
get_results_loading_type_load_more_first(company_dict) ==
    IF "load_more" \in company_dict THEN "load_more"
    ELSE IF "next_page" \in company_dict THEN "pagination"
    ELSE "simple"
get_results_loading_type(company_dict) ==
    IF "next_page" \in company_dict THEN "pagination"
    ELSE IF "load_more" \in company_dict THEN "load_more"
    ELSE "simple"

\* CompanyScrape.get_results_loading_type: the browser interactions it constructs
browser_interactions(company_dict) ==
    IF "next_page" \in company_dict THEN <<"PaginationInteraction">>
    ELSE IF "load_more" \in company_dict THEN <<"LoadMoreInteraction">>
    ELSE <<"SimplePageInteraction">>

\* company_dict is the set of the loading keys the configuration holds; loading is
\* self.results_loading; paged says whether next_page holds a start_point.
ScrapeConfig(company_dict, md, paged, start_point, increment) ==
    [company_dict |-> company_dict,
     loading |-> get_results_loading_type(company_dict),
     interactions |-> browser_interactions(company_dict),
     md |-> md, paged |-> paged,
     start_point |-> start_point, increment |-> increment]

\* The configurations of scraped companies the model runs.
ScrapeConfigs ==
    { ScrapeConfig({"next_page"}, HtmlMetadata(TRUE, FALSE, TRUE, ""), FALSE, 0, 0),
      ScrapeConfig({"next_page"}, HtmlMetadata(TRUE, FALSE, TRUE, "(\\d+)"), TRUE, 1, 1),
      ScrapeConfig({"next_page", "load_more"}, HtmlMetadata(TRUE, FALSE, TRUE, ""), FALSE, 0, 0),
      ScrapeConfig({"load_more"}, HtmlMetadata(TRUE, FALSE, TRUE, ""), FALSE, 0, 0),
      ScrapeConfig({}, HtmlMetadata(TRUE, FALSE, FALSE, ""), FALSE, 0, 0),
      ScrapeConfig({}, HtmlMetadata(TRUE, FALSE, TRUE, "j(\\d+)"), FALSE, 0, 0) }

\* The pages a browser can show.
BrowserPages ==
    { <<>>,
      <<n_j1_d>>,
      <<n_j1_d, n_j2_q>>,
      <<n_r1_d, n_j1_q>>,
      <<n_empty_id, n_empty_title, n_no_title_tag>>,
      <<N(jId("3"), <<"d">>)>> }

\* element.text_all: the nodes of the model hold no text but their title's.
text_all(node) == node.title

TextsOf(nodes) == {text_all(nodes[i]) : i \in 1..Len(nodes)}

\* The pages the model's browser shows.
BrowserShows ==
    {Shown(nodes, Source(nodes)) : nodes \in BrowserPages}
    \cup {Shown(<<n_j2_q>>, EmptySource)}

InitScrape ==
    /\ cls = "scrape"
    /\ cfg \in ScrapeConfigs
    /\ pc = "start_driver"
    /\ current_stage = cfg.start_point
    /\ InitCompany /\ InitNoApi /\ InitNoBrowser /\ InitNoBatch /\ InitNoCall
    /\ prefixLen = 0 /\ tailKind = "constant"

\* job_containers.extend(self.extract_jobs_from_html(html))
extended_by(acc, r) ==
    [jobs |-> extend(acc.jobs, r.jobs), errors |-> acc.errors \o r.errors]

\* `for html in html_list: job_containers.extend(self.extract_jobs_from_html(html))`
RECURSIVE extract_html_list(_, _, _)
extract_html_list(md, htmls, acc) ==
    IF htmls = <<>> THEN acc
    ELSE extract_html_list(md, Tail(htmls),
             extended_by(acc, extract_jobs_from_html(md, Head(htmls).nodes)))

\* `len(refined_ids_set) != len(ids_set)`
refinement_disagrees_never(jobs) == FALSE
refinement_disagrees(jobs) ==
    Cardinality({jobs[i].refined_id : i \in 1..Len(jobs)})
        # Cardinality({jobs[i].job_id : i \in 1..Len(jobs)})

\* A mapping keyed by the refined ids whatever the comparison of the sets said.
dict_by_refined_id(jobs, by_refined) ==
    [k \in {jobs[i].refined_id : i \in 1..Len(jobs)} |->
        jobs[comprehension_keeps({i \in 1..Len(jobs) : jobs[i].refined_id = k})].title]

\* { key(job): job.title for job in job_containers } for a key attribute
dict_by(jobs, by_refined) ==
    LET key(j) == IF by_refined THEN j.refined_id ELSE j.job_id
    IN  [k \in {key(jobs[i]) : i \in 1..Len(jobs)} |->
            jobs[comprehension_keeps({i \in 1..Len(jobs) : key(jobs[i]) = k})].title]

\* BrowserInteraction.run raises: scrape_results records the message and returns.
RunRaises(message) ==
    /\ run_exit' = "raised"
    /\ errors' = Append(errors, message)
    /\ pc' = "done"
    /\ UNCHANGED <<jobs_dict, job_containers>>

\* The else branch of scrape_results, once the pages fetched are extracted.
ScrapeElse(ex) ==
    /\ job_containers' = ex.jobs
    /\ jobs_dict' = dict_by(ex.jobs, ~refinement_disagrees(ex.jobs))
    /\ errors' = with_no_results_error(
                     IF refinement_disagrees(ex.jobs)
                     THEN Append(errors \o ex.errors, IdRefinementError)
                     ELSE errors \o ex.errors,
                     dict_by(ex.jobs, ~refinement_disagrees(ex.jobs)))
    /\ pc' = "done"

\* BrowserInteraction.run returns (after kill_chrome_processes): the else branch of
\* scrape_results extracts the jobs of the pages fetched.
RunReturns(htmls) ==
    /\ killed' = TRUE
    /\ run_exit' = "returned"
    /\ ScrapeElse(extract_html_list(cfg.md, htmls, [jobs |-> <<>>, errors |-> <<>>]))

\* `if self.starting_attempts >= STARTING_ATTEMPTS_LIMIT: raise`
attempts_exhausted_late(attempts) == attempts >= STARTING_ATTEMPTS_LIMIT + 2
attempts_exhausted(attempts) == attempts >= STARTING_ATTEMPTS_LIMIT

\* BrowserInteraction.start_driver, one pass of its loop: uc.start succeeds or raises.
StartDriverAttempt ==
    /\ cls = "scrape" /\ pc = "start_driver"
    /\ attempts_made' = attempts_made + 1
    /\ \/ /\ driver' = "running"
          /\ pc' = "open"
          /\ UNCHANGED <<starting_attempts, run_exit, companyVars>>
       \/ /\ starting_attempts' = starting_attempts + 1
          /\ driver' = driver
          /\ IF attempts_exhausted(starting_attempts + 1)
             THEN RunRaises(StartProblem)
             ELSE UNCHANGED <<pc, run_exit, companyVars>>
    /\ UNCHANGED <<exception, current_stage, old_nr_results, apiVars, html_list, html,
                   elements_set, nr_elements_old, nr_content_tags_old, dom, button,
                   killed, histVars, sourceVars, callVars, batchVars>>

\* `page = await self.driver.get(self.url)`
OpenPage ==
    /\ cls = "scrape" /\ pc = "open"
    /\ \/ /\ pc' = cfg.loading
          /\ UNCHANGED <<run_exit, companyVars>>
       \/ RunRaises(BrowserError)
    /\ UNCHANGED <<exception, current_stage, old_nr_results, apiVars, browserVarsButExit,
                   histVars, sourceVars, callVars, batchVars>>

\* PaginationInteraction.get_button_select_statement: the stage the lookup formats
button_stage_before(stage) == stage
button_stage(stage) == IF cfg.paged THEN stage + cfg.increment ELSE stage

\* `if nr_elements_new == nr_elements_old: break`
elements_converged_on_loss(nr_elements_new, nr_elements_old_) ==
    nr_elements_new < nr_elements_old_
elements_converged(nr_elements_new, nr_elements_old_) == nr_elements_new = nr_elements_old_

\* PaginationInteraction.fetch_html, one pass of its loop on the page shown.
PaginationPass ==
    /\ cls = "scrape" /\ pc = "pagination"
    /\ Len(fetched) < MaxFetches
    /\ \E shown \in BrowserShows :
        /\ fetched' = Append(fetched, Source(shown.nodes))
        /\ dom' = shown
        /\ elements_set' = elements_set \cup TextsOf(shown.nodes)
        /\ IF elements_converged(Cardinality(elements_set \cup TextsOf(shown.nodes)),
                                 nr_elements_old)
           THEN /\ pc' = "teardown"
                /\ UNCHANGED <<nr_elements_old, html_list, current_stage, stages,
                               nadvance, button, run_exit, companyVars>>
           ELSE /\ nr_elements_old' = Cardinality(elements_set \cup TextsOf(shown.nodes))
                /\ html_list' = Append(html_list, shown.content)
                /\ current_stage' = button_stage(current_stage)
                /\ stages' = Append(stages, button_stage(current_stage))
                /\ \/ \* the next page button is absent
                      /\ button' = "absent"
                      /\ pc' = "teardown"
                      /\ UNCHANGED <<nadvance, run_exit, companyVars>>
                   \/ \* it is there and the click goes through
                      /\ button' = "found"
                      /\ nadvance' = nadvance + 1
                      /\ UNCHANGED <<pc, run_exit, companyVars>>
                   \/ \* it is there and the click raises
                      /\ button' = "found"
                      /\ RunRaises(BrowserError)
                      /\ UNCHANGED nadvance
    /\ UNCHANGED <<exception, old_nr_results, apiVars, starting_attempts, driver, html,
                   nr_content_tags_old, killed, attempts_made, sourceVars, callVars, batchVars>>

\* A browser call of the pagination loop raises before anything of the pass is kept.
PaginationQueryRaises ==
    /\ cls = "scrape" /\ pc = "pagination"
    /\ RunRaises(BrowserError)
    /\ UNCHANGED <<exception, current_stage, old_nr_results, apiVars, browserVarsButExit,
                   histVars, sourceVars, callVars, batchVars>>

\* PaginationInteraction.fetch_html after its loop: close, stop, check the pages.
PaginationTeardown ==
    /\ cls = "scrape" /\ pc = "teardown" /\ cfg.loading = "pagination"
    /\ \/ \* page.close() raises
          /\ RunRaises(BrowserError)
          /\ UNCHANGED <<driver, killed>>
       \/ /\ driver' = "stopped"
          /\ IF html_list = <<>> THEN RunRaises(NoPageFetched) /\ UNCHANGED killed
             ELSE IF \E i \in 1..Len(html_list) : falsy(html_list[i])
                  THEN RunRaises(PageNotFetched) /\ UNCHANGED killed
                  ELSE RunReturns(html_list)
    /\ UNCHANGED <<exception, current_stage, old_nr_results, apiVars, starting_attempts,
                   html_list, html, elements_set, nr_elements_old, nr_content_tags_old,
                   dom, button, attempts_made, histVars, sourceVars, callVars, batchVars>>

\* `if more_button is None or nr_content_tags_new == nr_content_tags_old: break`
load_more_stops_on_absent_only(button_found, nr_content_tags_new, nr_content_tags_old_) ==
    ~button_found
load_more_stops(button_found, nr_content_tags_new, nr_content_tags_old_) ==
    ~button_found \/ nr_content_tags_new = nr_content_tags_old_

\* LoadMoreInteraction.fetch_html, one pass of its loop on the page shown.
LoadMorePass ==
    /\ cls = "scrape" /\ pc = "load_more"
    /\ nadvance < MaxFetches
    /\ \E shown \in BrowserShows, button_found \in BOOLEAN :
        /\ dom' = shown
        /\ button' = (IF button_found THEN "found" ELSE "absent")
        /\ IF load_more_stops(button_found, Len(shown.nodes), nr_content_tags_old)
           THEN /\ pc' = "teardown"
                /\ UNCHANGED <<nr_content_tags_old, nadvance, run_exit, companyVars>>
           ELSE \/ \* the click goes through
                   /\ nadvance' = nadvance + 1
                   /\ nr_content_tags_old' = Len(shown.nodes)
                   /\ UNCHANGED <<pc, run_exit, companyVars>>
                \/ \* the click raises
                   /\ RunRaises(BrowserError)
                   /\ UNCHANGED <<nr_content_tags_old, nadvance>>
    /\ UNCHANGED <<exception, current_stage, old_nr_results, apiVars, starting_attempts,
                   driver, html_list, html, elements_set, nr_elements_old, killed,
                   attempts_made, fetched, stages, sourceVars, callVars, batchVars>>

\* LoadMoreInteraction.fetch_html after its loop: content, close, stop, check.
LoadMoreTeardown ==
    /\ cls = "scrape" /\ pc = "teardown" /\ cfg.loading = "load_more"
    /\ \/ \* page.get_content() raises
          /\ RunRaises(BrowserError)
          /\ UNCHANGED <<html, driver, killed>>
       \/ /\ html' = dom.content
          /\ driver' = "stopped"
          /\ IF falsy(dom.content) THEN RunRaises(HtmlNotFetched) /\ UNCHANGED killed
             ELSE RunReturns(<<dom.content>>)
    /\ UNCHANGED <<exception, current_stage, old_nr_results, apiVars, starting_attempts,
                   html_list, elements_set, nr_elements_old, nr_content_tags_old, dom,
                   button, attempts_made, histVars, sourceVars, callVars, batchVars>>

\* SimplePageInteraction.fetch_html after driver.get: content, close, stop, check.
SimplePage ==
    /\ cls = "scrape" /\ pc = "simple"
    /\ \/ \* page.get_content() raises
          /\ RunRaises(BrowserError)
          /\ UNCHANGED <<html, driver, killed, dom>>
       \/ \E shown \in BrowserShows :
          /\ dom' = shown
          /\ html' = shown.content
          /\ driver' = "stopped"
          /\ IF falsy(shown.content) THEN RunRaises(HtmlNotFetched) /\ UNCHANGED killed
             ELSE RunReturns(<<shown.content>>)
    /\ UNCHANGED <<exception, current_stage, old_nr_results, apiVars, starting_attempts,
                   html_list, elements_set, nr_elements_old, nr_content_tags_old,
                   button, attempts_made, histVars, sourceVars, callVars, batchVars>>

\* ---------------------------------------------------------------- Company (selenium)
\* JobContainerMetadata: the title tag is always configured, the id tag may be.
LegacyMetadata(id_tag) == HtmlMetadata(TRUE, id_tag, id_tag, "")

\* Company constructs no interaction; the model runs its pagination loop.
LegacyConfigs ==
    { [ScrapeConfig({"next_page"}, LegacyMetadata(id_tag), FALSE, 0, 0)
          EXCEPT !.interactions = <<>>] : id_tag \in BOOLEAN }

\* A container with a title tag and an id tag
L(id, title) == Node("match", title, "match", <<>>, TRUE, id)

LegacyPages ==
    { <<>>,
      <<L(jId("1"), <<"d">>)>>,
      <<L(jId("1"), <<"d">>), L(jId("2"), <<"q">>)>>,
      <<L(jId("1"), <<"q", NBSP>>), L(jId("3"), <<"r">>)>>,
      <<n_no_title_tag>>,
      <<Node("other", <<"d">>, "match", <<>>, TRUE, jId("4"))>> }

\* JobContainer.get_title
JobContainer_get_title(md, soup) ==
    IF soup.title_child # "match" THEN Raised("AttributeError")
    ELSE Returned(join_lines(soup.title))

\* JobContainer.get_id
JobContainer_get_id(md, soup, title) ==
    IF md.id_tag
    THEN IF soup.id_child # "match" THEN Raised("AttributeError") ELSE attr_id(soup)
    ELSE Returned(title)

\* JobContainer.__init__
JobContainer(md, soup) ==
    LET with_id(title, id) ==
            IF id.exc # "none" THEN id ELSE Returned(Job(id.val, id.val, title.val, FALSE))
        with_title(title) ==
            IF title.exc # "none" THEN title
            ELSE with_id(title, JobContainer_get_id(md, soup, title.val))
    IN  with_title(JobContainer_get_title(md, soup))

\* `[JobContainer(metadata, job_soup) for job_soup in job_container_soups]`
RECURSIVE containers_of(_, _, _)
container_listed(md, rest, acc, made) ==
    IF made.exc # "none" THEN made ELSE containers_of(md, rest, Append(acc, made.val))

containers_of(md, job_container_soups, acc) ==
    IF job_container_soups = <<>> THEN Returned(acc)
    ELSE container_listed(md, Tail(job_container_soups), acc,
                          JobContainer(md, Head(job_container_soups)))

\* Company.extract_results_of_single_page_soup
extract_results_of_single_page_soup(md, nodes) ==
    containers_of(md, find_multiple_tags(nodes, md), <<>>)

\* Company.get_unique_results: `list({job.id: job for job in job_containers}.values())`,
\* each id at the place of its first record, holding the record the dict keeps
get_unique_results(containers) ==
    LET same_id(i) == {j \in 1..Len(containers) : containers[j].job_id = containers[i].job_id}
        is_first(i) == i = Min(same_id(i))
        firsts == SelectSeq([i \in 1..Len(containers) |-> i], is_first)
    IN  [n \in 1..Len(firsts) |-> containers[comprehension_keeps(same_id(firsts[n]))]]

\* `if new_nr_results == old_nr_results: break`
results_converged(new_nr_results, old_nr_results_) == new_nr_results = old_nr_results_

InitLegacy ==
    /\ cls = "legacy"
    /\ cfg \in LegacyConfigs
    /\ pc = "legacy_open"
    /\ current_stage = cfg.start_point
    /\ InitCompany /\ InitNoApi /\ InitNoBrowser /\ InitNoBatch /\ InitNoCall
    /\ prefixLen = 0 /\ tailKind = "constant"

\* `driver = webdriver.Chrome(options=options); driver.get(self.url)`
LegacyOpen ==
    /\ cls = "legacy" /\ pc = "legacy_open"
    /\ driver' = "running"
    /\ pc' = "legacy_loop"
    /\ UNCHANGED <<exception, current_stage, old_nr_results, companyVars, apiVars,
                   browserVarsButDriver, histVars, sourceVars, callVars, batchVars>>

\* fetch_results_of_pagination, one pass of its loop, once the page is extracted.
LegacyPassOn(new_containers) ==
    IF new_containers.exc # "none"
    THEN /\ pc' = "raised"
         /\ exception' = new_containers.exc
         /\ UNCHANGED <<job_containers, old_nr_results, nadvance>>
    ELSE IF Len(new_containers.val) = 0
    THEN /\ pc' = "legacy_quit"
         /\ UNCHANGED <<exception, job_containers, old_nr_results, nadvance>>
    ELSE LET unique == get_unique_results(extend(job_containers, new_containers.val))
         IN  /\ job_containers' = unique
             /\ IF results_converged(Len(unique), old_nr_results)
                THEN /\ pc' = "legacy_quit"
                     /\ UNCHANGED <<exception, old_nr_results, nadvance>>
                ELSE /\ old_nr_results' = Len(unique)
                     /\ \/ \* NoSuchElementException: no next page button
                           /\ pc' = "legacy_quit"
                           /\ UNCHANGED <<exception, nadvance>>
                        \/ \* the click goes through
                           /\ nadvance' = nadvance + 1
                           /\ UNCHANGED <<pc, exception>>
                        \/ \* the lookup or the click raises another exception
                           /\ pc' = "raised"
                           /\ exception' = "WebDriverException"
                           /\ UNCHANGED nadvance

\* Company.fetch_results_of_pagination, one pass of its loop on the page shown.
LegacyPass ==
    /\ cls = "legacy" /\ pc = "legacy_loop"
    /\ Len(fetched) < MaxFetches
    /\ \E nodes \in LegacyPages :
        /\ fetched' = Append(fetched, Source(nodes))
        /\ LegacyPassOn(extract_results_of_single_page_soup(cfg.md, nodes))
    /\ UNCHANGED <<current_stage, jobs_dict, errors, apiVars, browserVars, stages,
                   sourceVars, callVars, batchVars>>

\* `driver.quit(); return job_containers`, then get_unique_results in fetch_results
LegacyQuit ==
    /\ cls = "legacy" /\ pc = "legacy_quit"
    /\ driver' = "stopped"
    /\ job_containers' = get_unique_results(job_containers)
    /\ pc' = "done"
    /\ UNCHANGED <<exception, current_stage, old_nr_results, jobs_dict, errors, apiVars,
                   browserVarsButDriver, histVars, sourceVars, callVars, batchVars>>

\* ---------------------------------------------------------------- Orchestrator.scrape
CompanyInfo(name, config) == [name |-> name, cfg |-> config]

SingleHtml == ApiConfig("html", FALSE, HtmlMetadata(TRUE, FALSE, TRUE, ""), 1, 1)
IterativeHtml == ApiConfig("html", TRUE, HtmlMetadata(TRUE, FALSE, TRUE, ""), 1, 1)

\* The company lists the model's batches run over.
CompanyLists ==
    { <<CompanyInfo("a", SingleHtml), CompanyInfo("b", IterativeHtml),
        CompanyInfo("c", SingleHtml)>>,
      <<CompanyInfo("a", IterativeHtml), CompanyInfo("b", SingleHtml)>> }

TodayEntry(job_listings, error_list) == [job_listings |-> job_listings, errors |-> error_list]

\* An entry that takes the jobs of the run as they are, empty or not.
today_entry_as_fetched(yesterday, company_name, jobs, error_list) ==
    TodayEntry(jobs, error_list)

\* Orchestrator.update_today_data: the entry written for the company
today_entry(yesterday, company_name, jobs, error_list) ==
    TodayEntry(IF DOMAIN jobs # {} THEN jobs
               ELSE IF company_name \in DOMAIN yesterday
                    THEN yesterday[company_name].job_listings
                    ELSE jobs,
               error_list)

\* An update that writes a snapshot holding the entry of the company alone.
update_today_data_alone(today, yesterday, company_name, jobs, error_list) ==
    [n \in {company_name} |-> today_entry(yesterday, company_name, jobs, error_list)]

\* Orchestrator.update_today_data
update_today_data(today, yesterday, company_name, jobs, error_list) ==
    [n \in DOMAIN today \cup {company_name} |->
        IF n = company_name THEN today_entry(yesterday, company_name, jobs, error_list)
        ELSE today[n]]

\* json.dump(today_dict, write_file, ...): the text written for a dict of
\* companies; job keys and titles are str and are written as they are.
json_dump(data_dict) ==
    JsonFile("text", DOMAIN data_dict,
             UNION { { <<n, k, data_dict[n].job_listings[k]>> :
                         k \in DOMAIN data_dict[n].job_listings } : n \in DOMAIN data_dict },
             UNION { { <<n, i, data_dict[n].errors[i]>> :
                         i \in DOMAIN data_dict[n].errors } : n \in DOMAIN data_dict })

\* json.load(read_file): the dict the text of a file stands for
json_load(file) ==
    [n \in file.names |->
        TodayEntry([k \in { m[2] : m \in { u \in file.listings : u[1] = n } } |->
                       (CHOOSE m \in file.listings : m[1] = n /\ m[2] = k)[3]],
                   [i \in 1..Cardinality({ u \in file.errors : u[1] = n }) |->
                       (CHOOSE m \in file.errors : m[1] = n /\ m[2] = i)[3]])]

\* utils.read_json_file(filename, create_if_inexistent=True): the dict returned
read_json_file(file) == IF file.state = "text" THEN json_load(file) ELSE <<>>

\* utils.read_json_file(filename, create_if_inexistent=True): the file left behind
created_if_inexistent(file) == IF file.state = "absent" THEN EmptyFile ELSE file

InitBatch ==
    /\ cls = "api"
    /\ company_list \in CompanyLists
    /\ company_index = 1
    /\ today_dict \in { <<>>, [n \in {"b"} |-> TodayEntry(<<>>, <<>>)] }
    /\ yesterday_dict \in { <<>>, [n \in {"a"} |-> TodayEntry([k \in {jId("9")} |-> <<"y">>], <<>>)] }
    /\ batch = "running"
    /\ own_errors = <<>>
    /\ InitNoDays
    /\ cfg = company_list[1].cfg
    /\ pc = "idle"
    /\ current_stage = cfg.start_point
    /\ InitCompany /\ InitNoApi /\ InitNoBrowser /\ InitNoCall
    /\ prefixLen = 0 /\ tailKind = "constant"

\* A scrape that takes no company for processed.
processed_today_never(today, company_name) == FALSE

\* `if company_dict["name"] in self.today_dict: continue`
processed_today(today, company_name) == company_name \in DOMAIN today

\* The head of the for loop of scrape: skip a company processed today, else
\* construct the next company; its fetch_results is then run.
BatchNextCompany ==
    /\ batch = "running" /\ pc = "idle"
    /\ company_index <= Len(company_list)
    /\ IF processed_today(today_dict, company_list[company_index].name)
       THEN /\ company_index' = company_index + 1
            /\ UNCHANGED <<pc, cfg, current_stage>>
       ELSE /\ cfg' = company_list[company_index].cfg
            /\ pc' = IF cfg'.iterative THEN "loop" ELSE "single"
            /\ current_stage' = cfg'.start_point
            /\ UNCHANGED company_index
    /\ jobs_dict' = <<>> /\ errors' = <<>> /\ job_containers' = <<>>
    /\ job_containers_set' = {} /\ job_nr_old' = 0
    /\ fetched' = <<>> /\ stages' = <<>> /\ nadvance' = 0
    /\ UNCHANGED <<exception, old_nr_results, browserVars, cls, prefixLen, tailKind, callVars,
                   company_list, today_dict, yesterday_dict, batch, own_errors, dayVars>>

\* `self.update_today_data(company.name, company.jobs_dict, company.errors)`
BatchUpdateToday ==
    /\ batch = "running" /\ pc = "done"
    /\ today_dict' = update_today_data(today_dict, yesterday_dict,
                                       company_list[company_index].name, jobs_dict, errors)
    /\ own_errors' = [n \in DOMAIN own_errors \cup {company_list[company_index].name} |->
                        IF n = company_list[company_index].name THEN errors
                        ELSE own_errors[n]]
    /\ own_jobs' = [n \in DOMAIN own_jobs \cup {company_list[company_index].name} |->
                      IF n = company_list[company_index].name THEN jobs_dict
                      ELSE own_jobs[n]]
    /\ today_file' = json_dump(today_dict')
    /\ company_index' = company_index + 1
    /\ pc' = "idle"
    /\ UNCHANGED <<exception, current_stage, old_nr_results, companyVars, apiVars,
                   browserVars, histVars, sourceVars, callVars, fetchers, company_list, yesterday_dict,
                   batch, yesterday_file, history_dict, day, emails, refined>>

\* The exception that left fetch_results leaves scrape: nothing in scrape catches it.
BatchAborts ==
    /\ batch = "running" /\ pc = "raised"
    /\ batch' = "aborted"
    /\ UNCHANGED <<pc, exception, current_stage, old_nr_results, companyVars, apiVars,
                   browserVars, histVars, sourceVars, callVars, company_list, company_index,
                   today_dict, yesterday_dict, own_errors, dayVars>>

\* The for loop of scrape is through the list.
BatchFinishes ==
    /\ batch = "running" /\ pc = "idle"
    /\ company_index > Len(company_list)
    /\ batch' = "finished"
    /\ UNCHANGED <<pc, exception, current_stage, old_nr_results, companyVars, apiVars,
                   browserVars, histVars, sourceVars, callVars, company_list, company_index,
                   today_dict, yesterday_dict, own_errors, dayVars>>

\* ---------------------------------------------------------------- the daily cycle
\* Number of days job_scraper.main is run on.
MaxDays == 2

\* config["KEYWORDS"].split(",")
keyword_list == { <<"d">> }

\* `keyword in job_title.lower()`
keyword_in(keyword, text) ==
    \E i \in 1..(Len(text) - Len(keyword) + 1) : SubSeq(text, i, i + Len(keyword) - 1) = keyword

\* Orchestrator.refine: yesterday_job_results
yesterday_job_results(yesterday, company_name) ==
    IF company_name \notin DOMAIN yesterday THEN <<>>
    ELSE yesterday[company_name].job_listings

\* A refine that takes every listing of today for new.
new_results_dict_all(job_listings, yesterday_results) == job_listings

\* Orchestrator.refine: new_results_dict
new_results_dict(job_listings, yesterday_results) ==
    [k \in { j \in DOMAIN job_listings : j \notin DOMAIN yesterday_results } |->
        job_listings[k]]

\* Orchestrator.refine: new_relevant_results
new_relevant_results(new_results) ==
    [k \in { j \in DOMAIN new_results :
               \E keyword \in keyword_list : keyword_in(keyword, lower(new_results[j])) } |->
        new_results[k]]

\* Orchestrator.refine: the new results of one company of today_dict
new_results_of(today, yesterday, company_name) ==
    new_results_dict(today[company_name].job_listings,
                     yesterday_job_results(yesterday, company_name))

\* Orchestrator.update_history_data, called for every company of today_dict
update_history_data(history, today, yesterday, today_date) ==
    [n \in DOMAIN history \cup DOMAIN today |->
        IF n \in DOMAIN today
        THEN [d \in (IF n \in DOMAIN history THEN DOMAIN history[n] ELSE {})
                    \cup {today_date} |->
                 IF d = today_date THEN new_results_of(today, yesterday, n)
                 ELSE history[n][d]]
        ELSE history[n]]

\* Orchestrator.refine: new_relevant_results_dict at the end of the loop
new_relevant_results_dict(today, yesterday) ==
    [n \in { c \in DOMAIN today :
               DOMAIN new_relevant_results(new_results_of(today, yesterday, c)) # {} } |->
        new_relevant_results(new_results_of(today, yesterday, n))]

\* Orchestrator.refine: potential_errors_dict at the end of the loop
potential_errors_dict(today) ==
    [n \in { c \in DOMAIN today : today[c].errors # <<>> } |-> today[n].errors]

\* The company lists the model's days run over.
DailyLists ==
    { <<CompanyInfo("a", SingleHtml)>>, <<CompanyInfo("a", IterativeHtml)>> }

\* The files as a first day can find them.
InitDaily ==
    /\ cls = "api"
    /\ company_list \in DailyLists
    /\ company_index = 1
    /\ today_dict = <<>>
    /\ yesterday_dict = <<>>
    /\ batch = "closed"
    /\ own_errors = <<>>
    /\ today_file \in { AbsentFile,
                        json_dump([n \in {"a"} |->
                                     TodayEntry([k \in {jId("1")} |-> <<"d">>], <<>>)]) }
    /\ yesterday_file \in { AbsentFile,
                            json_dump([n \in {"a"} |->
                                         TodayEntry([k \in {jId("9")} |-> <<"d">>], <<>>)]) }
    /\ history_dict = <<>>
    /\ day = 0
    /\ emails = <<>>
    /\ refined = <<>>
    /\ fetchers = <<>>
    /\ own_jobs = <<>>
    /\ cfg = company_list[1].cfg
    /\ pc = "idle"
    /\ current_stage = cfg.start_point
    /\ InitCompany /\ InitNoApi /\ InitNoBrowser /\ InitNoCall
    /\ prefixLen = 0 /\ tailKind = "constant"

\* job_scraper.main on the next day: Orchestrator.__init__ reads the files.
OrchestratorInit ==
    /\ batch = "closed" /\ day < MaxDays
    /\ day' = day + 1
    /\ today_dict' = read_json_file(today_file)
    /\ yesterday_dict' = read_json_file(yesterday_file)
    /\ today_file' = created_if_inexistent(today_file)
    /\ yesterday_file' = created_if_inexistent(yesterday_file)
    /\ batch' = "running"
    /\ company_index' = 1
    /\ own_errors' = <<>>
    /\ own_jobs' = <<>>
    /\ UNCHANGED <<pc, exception, current_stage, old_nr_results, companyVars, apiVars,
                   browserVars, histVars, sourceVars, callVars, fetchers, company_list, history_dict,
                   emails, refined>>

\* Orchestrator.refine; send_email raises when the mail server refuses.
OrchestratorRefine ==
    /\ batch = "finished"
    /\ history_dict' = update_history_data(history_dict, today_dict, yesterday_dict, day)
    /\ refined' = Append(refined, [today |-> today_dict, yesterday |-> yesterday_dict])
    /\ \E sent \in BOOLEAN :
         /\ emails' = IF sent
                      THEN Append(emails,
                                  [day |-> day,
                                   jobs_dict |-> new_relevant_results_dict(today_dict,
                                                                           yesterday_dict),
                                   errors_dict |-> potential_errors_dict(today_dict)])
                      ELSE emails
         /\ batch' = IF sent THEN "refined" ELSE "aborted"
    /\ UNCHANGED <<pc, exception, current_stage, old_nr_results, companyVars, apiVars,
                   browserVars, histVars, sourceVars, callVars, own_jobs, fetchers,
                   company_list, company_index,
                   today_dict, yesterday_dict, own_errors, today_file, yesterday_file, day>>

\* Orchestrator.finish
OrchestratorFinish ==
    /\ batch = "refined"
    /\ yesterday_file' = json_dump(today_dict)
    /\ today_file' = AbsentFile
    /\ batch' = "closed"
    /\ UNCHANGED <<pc, exception, current_stage, old_nr_results, companyVars, apiVars,
                   browserVars, histVars, sourceVars, callVars, own_jobs, fetchers,
                   company_list, company_index,
                   today_dict, yesterday_dict, own_errors, history_dict, day, emails,
                   refined>>

\* ---------------------------------------------------------------- api_fetcher.main
\* The companies api_fetcher is run for, one process each.
FetcherNames == {"a", "b"}

\* What company.fetch_results() can leave in jobs_dict and errors.
FetchOutcomes ==
    { [jobs_dict |-> [k \in {jId("1")} |-> <<"d">>], errors |-> <<>>],
      [jobs_dict |-> [k \in {jId("1"), jId("2")} |-> <<"q">>], errors |-> <<PageNotFetched>>],
      [jobs_dict |-> <<>>, errors |-> <<NoResults>>] }

\* A run of main: where it is, the result of its fetch, the dicts it has read.
Fetcher(at, outcome, today, yesterday) ==
    [pc |-> at, jobs_dict |-> outcome.jobs_dict, errors |-> outcome.errors,
     today_dict |-> today, yesterday_dict |-> yesterday]

NoOutcome == [jobs_dict |-> <<>>, errors |-> <<>>]

InitFetchers ==
    /\ cls = "fetchers"
    /\ fetchers = [p \in FetcherNames |-> Fetcher("fetch_results", NoOutcome, <<>>, <<>>)]
    /\ today_file \in { AbsentFile, EmptyFile,
                        json_dump([n \in {"c"} |->
                                     TodayEntry([k \in {jId("3")} |-> <<"d">>], <<>>)]) }
    /\ yesterday_file \in { AbsentFile, EmptyFile,
                            json_dump([n \in {"a"} |->
                                         TodayEntry([k \in {jId("9")} |-> <<"d">>], <<>>)]) }
    /\ history_dict = <<>> /\ day = 0 /\ emails = <<>> /\ refined = <<>>
    /\ own_jobs = <<>>
    /\ company_list = <<>> /\ company_index = 0 /\ today_dict = <<>>
    /\ yesterday_dict = <<>> /\ batch = "none" /\ own_errors = <<>>
    /\ cfg = SingleHtml
    /\ pc = "idle"
    /\ current_stage = cfg.start_point
    /\ InitCompany /\ InitNoApi /\ InitNoBrowser /\ InitNoCall
    /\ prefixLen = 0 /\ tailKind = "constant"

\* A step of the run of main for company p: only that run and the files can change.
FetcherStep(p, next) ==
    /\ fetchers' = [fetchers EXCEPT ![p] = next]
    /\ UNCHANGED <<pc, exception, current_stage, old_nr_results, companyVars, apiVars,
                   browserVars, histVars, sourceVars, callVars, own_jobs,
                   company_list, company_index,
                   today_dict, yesterday_dict, batch, own_errors, history_dict, day,
                   emails, refined>>

\* `company.fetch_results()`
FetcherFetchResults(p) ==
    /\ cls = "fetchers" /\ fetchers[p].pc = "fetch_results"
    /\ \E outcome \in FetchOutcomes :
         FetcherStep(p, Fetcher("read_today", outcome, <<>>, <<>>))
    /\ UNCHANGED <<today_file, yesterday_file>>

\* `today_dict = read_json_file(config["TODAY_FILENAME"], create_if_inexistent=True)`
FetcherReadToday(p) ==
    /\ cls = "fetchers" /\ fetchers[p].pc = "read_today"
    /\ FetcherStep(p, Fetcher("read_yesterday", fetchers[p],
                              read_json_file(today_file), <<>>))
    /\ today_file' = created_if_inexistent(today_file)
    /\ UNCHANGED yesterday_file

\* `yesterday_dict = read_json_file(config["YESTERDAY_FILENAME"])`: os.path.getsize
\* raises FileNotFoundError when there is no such file.
FetcherReadYesterday(p) ==
    /\ cls = "fetchers" /\ fetchers[p].pc = "read_yesterday"
    /\ FetcherStep(p, Fetcher(IF yesterday_file.state = "absent" THEN "raised" ELSE "write",
                              fetchers[p], fetchers[p].today_dict,
                              read_json_file(yesterday_file)))
    /\ UNCHANGED <<today_file, yesterday_file>>

\* The rest of update_today_data: the entry of the company is set in the dict read
\* and the dict is dumped over the file.
FetcherWrite(p) ==
    /\ cls = "fetchers" /\ fetchers[p].pc = "write"
    /\ FetcherStep(p, Fetcher("done", fetchers[p],
                              update_today_data(fetchers[p].today_dict,
                                                fetchers[p].yesterday_dict, p,
                                                fetchers[p].jobs_dict, fetchers[p].errors),
                              fetchers[p].yesterday_dict))
    /\ today_file' = json_dump(update_today_data(fetchers[p].today_dict,
                                                 fetchers[p].yesterday_dict, p,
                                                 fetchers[p].jobs_dict, fetchers[p].errors))
    /\ UNCHANGED yesterday_file

\* ---------------------------------------------------------------- calls of the utility functions
\* Length of the documents find_multiple_tags is called on.
MaxDocLen == 2

\* An element of a document: tag says whether its name is the tag searched for
\* ("main") or not ("other"); attr says whether the attribute tag_attrs["key"] is
\* "absent", holds another value ("other") or the value searched for ("match");
\* node is the element itself with its descendants.
Element(tag, attr, node) == [tag |-> tag, attr |-> attr, node |-> node]

\* An element with or without a title-tag and an id-tag descendant.
WithChildren(title_child, id_child) ==
    Node(title_child, <<"d">>, id_child, <<"1">>, FALSE, <<>>)

DocElements ==
    { Element("main", "match", WithChildren("match", "match")),
      Element("main", "other", WithChildren("match", "match")),
      Element("main", "absent", WithChildren("match", "match")),
      Element("other", "match", WithChildren("match", "match")),
      Element("main", "match", WithChildren("other", "absent")),
      Element("main", "match", WithChildren("absent", "absent")) }

Documents == UNION {[1..n -> DocElements] : n \in 0..MaxDocLen}

\* soup.find_all(tag_name), soup.find_all(tag_name, {key: True}),
\* soup.find_all(tag_name, {key: value}): tag_attrs is "none" (None), "key" (no
\* "value" in it) or "key_value".
find_all_any_value(element, tag_attrs) ==
    element.tag = "main" /\ (tag_attrs # "none" => element.attr # "absent")
find_all(element, tag_attrs) ==
    /\ element.tag = "main"
    /\ CASE tag_attrs = "none" -> TRUE
         [] tag_attrs = "key" -> element.attr # "absent"
         [] OTHER -> element.attr = "match"

\* first_results: the elements of the document find_all gives, in document order
RECURSIVE first_results_of(_, _)
first_results_of(soup, tag_attrs) ==
    IF soup = <<>> THEN <<>>
    ELSE (IF find_all(Head(soup), tag_attrs) THEN <<Head(soup).node>> ELSE <<>>)
         \o first_results_of(Tail(soup), tag_attrs)

FindMultipleTagsArgs ==
    [fn : {"find_multiple_tags"}, soup : Documents, tag_attrs : {"none", "key", "key_value"},
     md : {HtmlMetadata(title_tag, id_tag, FALSE, "") : title_tag \in BOOLEAN, id_tag \in BOOLEAN}]

\* Length of the strings the string functions are called on.
MaxLen == 4

Strings(alphabet) == UNION {[1..n -> alphabet] : n \in 0..MaxLen}

CleanStringArgs == [fn : {"clean_string"}, input_string : Strings({"a", " ", "\n", NBSP})]

GetRefinedIdArgs ==
    [fn : {"get_refined_id"}, id_regex : {"", "j(\\d+)", "(\\d+)"},
     job_id : Strings({"j", "4", "8", "2"}) \ {<<>>}]

InitCall ==
    /\ cls = "call"
    /\ \/ args \in FindMultipleTagsArgs
       \/ args \in CleanStringArgs
       \/ args \in GetRefinedIdArgs
    /\ result = <<>>
    /\ cfg = args
    /\ pc = "call"
    /\ current_stage = 0
    /\ InitCompany /\ InitNoApi /\ InitNoBrowser /\ InitNoBatch
    /\ prefixLen = 0 /\ tailKind = "constant"

\* The call returns.
Return(value) ==
    /\ result' = value
    /\ pc' = "done"
    /\ UNCHANGED <<args, exception, current_stage, old_nr_results, companyVars, apiVars,
                   browserVars, histVars, sourceVars, batchVars>>

\* utils.find_multiple_tags(soup, tag_name, tag_attrs, children_tag_names_list)
CallFindMultipleTags ==
    /\ cls = "call" /\ pc = "call" /\ args.fn = "find_multiple_tags"
    /\ Return(find_multiple_tags(first_results_of(args.soup, args.tag_attrs), args.md))

\* utils.clean_string(input_string)
CallCleanString ==
    /\ cls = "call" /\ pc = "call" /\ args.fn = "clean_string"
    /\ Return(clean_string(args.input_string))

\* HTMLJobContainer.get_refined_id() on a container whose job_id is set
CallGetRefinedId ==
    /\ cls = "call" /\ pc = "call" /\ args.fn = "get_refined_id"
    /\ Return(get_refined_id(HtmlMetadata(FALSE, FALSE, FALSE, args.id_regex), args.job_id))

\* ---------------------------------------------------------------- specifications
Init == InitApi \/ InitScrape \/ InitLegacy \/ InitCall

Next ==
    \/ ApiFetchFails \/ ApiIterate \/ ApiSingle
    \/ StartDriverAttempt \/ OpenPage
    \/ PaginationPass \/ PaginationQueryRaises \/ PaginationTeardown
    \/ LoadMorePass \/ LoadMoreTeardown \/ SimplePage
    \/ LegacyOpen \/ LegacyPass \/ LegacyQuit
    \/ CallFindMultipleTags \/ CallCleanString \/ CallGetRefinedId

\* One run of one company, or one call of a utility function.
Spec == Init /\ [][Next]_vars

NextBatch ==
    \/ BatchNextCompany \/ BatchUpdateToday \/ BatchAborts \/ BatchFinishes
    \/ ApiFetchFails \/ ApiIterate \/ ApiSingle

\* The batch over the companies, each run by CompanyAPI.fetch_results.
SpecBatch == InitBatch /\ [][NextBatch]_vars

NextDaily ==
    \/ OrchestratorInit \/ OrchestratorRefine \/ OrchestratorFinish
    \/ BatchNextCompany \/ BatchUpdateToday \/ BatchAborts \/ BatchFinishes
    \/ ApiFetchFails \/ ApiIterate \/ ApiSingle

\* job_scraper.main run day after day: scrape, refine, finish.
SpecDaily == InitDaily /\ [][NextDaily]_vars

NextFetchers ==
    \/ \E p \in FetcherNames : FetcherFetchResults(p)
    \/ \E p \in FetcherNames : FetcherReadToday(p)
    \/ \E p \in FetcherNames : FetcherReadYesterday(p)
    \/ \E p \in FetcherNames : FetcherWrite(p)

\* api_fetcher.main run for two companies, as two processes whose steps interleave.
SpecFetchers == InitFetchers /\ [][NextFetchers]_vars

\* ---------------------------------------------------------------- observers
Last(s) == s[Len(s)]

\* The pagination-type sources: the iterative API, the selenium pagination loop,
\* the browser's pagination interaction; and the positions of their loops.
PaginationType ==
    \/ cls = "api" /\ cfg.iterative
    \/ cls = "legacy"
    \/ cls = "scrape" /\ cfg.loading = "pagination"

LoopPcs == {"loop", "legacy_loop", "pagination"}

\* The records the run's extraction takes from one fetched payload.
ExtractedOf(page) ==
    CASE cls = "api" -> extract_jobs(cfg.response_format, cfg.md, page).jobs
      [] cls = "legacy" -> extract_results_of_single_page_soup(cfg.md, page.nodes).val
      [] OTHER -> extract_jobs_from_html(cfg.md, page.nodes).jobs

\* The records extracted from the payloads, in fetch order.
RECURSIVE ExtractedFrom(_)
ExtractedFrom(pages) ==
    IF pages = <<>> THEN <<>> ELSE ExtractedOf(Head(pages)) \o ExtractedFrom(Tail(pages))

AllExtracted == ExtractedFrom(fetched)

\* The title of the record seen last, in fetch order, among those with key k.
LastSeenTitle(records, k) ==
    records[Max({i \in 1..Len(records) : Key(records[i]) = k})].title

\* Extraction of the payload returned and gave no record.
ZeroExtractable(page) ==
    CASE cls = "api" ->
            /\ extract_jobs(cfg.response_format, cfg.md, page).exc = "none"
            /\ extract_jobs(cfg.response_format, cfg.md, page).jobs = <<>>
      [] cls = "legacy" ->
            extract_results_of_single_page_soup(cfg.md, page.nodes) = Returned(<<>>)
      [] OTHER -> extract_jobs_from_html(cfg.md, page.nodes).jobs = <<>>

\* What the loop itself measures on the payload is empty: the records extracted
\* (API, selenium loop), the elements matching the content selector (browser).
ZeroMeasured(page) ==
    IF cls = "scrape" THEN page.nodes = <<>> ELSE ZeroExtractable(page)

\* The step leaves the loop without advance or click and keeps what was accumulated.
StopsAndKeeps ==
    /\ pc' \notin LoopPcs
    /\ nadvance' = nadvance
    /\ current_stage' = current_stage
    /\ job_containers' = job_containers
    /\ html_list' = html_list
    /\ (cls = "api" => pc' = "done" /\ KeysOf(job_containers) \subseteq DOMAIN jobs_dict')

\* Outside the loop nothing is fetched and nothing advances.
NoFetchOutsideLoop == pc \notin LoopPcs => fetched' = fetched /\ nadvance' = nadvance

\* The run met a transport failure: the request raised (API), a browser call raised.
TransportFailed ==
    \/ cls = "api" /\ exception = "ConnectionError"
    \/ cls = "scrape" /\ run_exit = "raised" /\ Last(errors) = BrowserError

\* The records of the payloads the run held when it ended.
Accumulated ==
    IF cls = "scrape"
    THEN extract_html_list(cfg.md, html_list, [jobs |-> <<>>, errors |-> <<>>]).jobs
    ELSE job_containers

\* ---------------------------------------------------------------- claims
\* C1: on an iterative source whose payloads are constant, or hold no record, from
\* page prefixLen + 1 on, fetch_results makes at most prefixLen + 2 fetches (at most
\* prefixLen + 1 on the empty tail), has left its loop after the last of them, and
\* until then its next pass can always be taken.
C1_IterativeFetchTerminates ==
    (cls = "api" /\ cfg.iterative /\ tailKind \in {"constant", "empty"}) =>
        /\ Len(fetched) <= prefixLen + (IF tailKind = "empty" THEN 1 ELSE 2)
        /\ (Len(fetched) = prefixLen + (IF tailKind = "empty" THEN 1 ELSE 2)
               => pc \in {"done", "raised"})
        /\ (pc = "loop" => Len(fetched) < MaxFetches /\ ServerResponses # {})

C1_Witness ==
    /\ cls = "api" /\ cfg.iterative /\ tailKind = "constant"
    /\ prefixLen = 2 /\ Len(fetched) = 4 /\ nadvance = 3 /\ pc = "done"

\* C2: a pass of the iterative loop that extracts its payload ends the loop exactly
\* when the number of distinct accumulated ids did not grow, leaving the cursor where
\* it is; when it grew the cursor advances by the increment and the loop goes on.
\* Every fetch is made at the cursor.
C2_StopsAtFirstFetchWithoutGrowth ==
    [][(cls = "api" /\ pc = "loop" /\ fetched' # fetched /\ pc' # "raised") =>
          /\ stages' = Append(stages, current_stage)
          /\ IF Cardinality(KeysOf(job_containers')) = Cardinality(KeysOf(job_containers))
             THEN pc' = "done" /\ current_stage' = current_stage /\ nadvance' = nadvance
             ELSE /\ pc' = "loop"
                  /\ current_stage' = current_stage + cfg.increment
                  /\ nadvance' = nadvance + 1]_vars

\* Pages of 5 and 5 ids with 3 in common give 7 ids; the third page, the second
\* again, ends the loop.
C2_Witness ==
    /\ cls = "api" /\ pc = "done" /\ Len(fetched) = 3
    /\ fetched[1].nodes = PageA /\ fetched[2].nodes = PageB /\ fetched[3] = fetched[2]
    /\ Cardinality(DOMAIN jobs_dict) = 7 /\ nadvance = 2

\* C3: when fetch_results has completed, the keys of jobs_dict are exactly the
\* refined ids (the raw ids where there is no refinement) of the records extracted
\* from the fetched payloads.
C3_KeysAreTheExtractedIds ==
    (cls = "api" /\ pc = "done") => DOMAIN jobs_dict = KeysOf(AllExtracted)

C3_Witness ==
    /\ cls = "api" /\ pc = "done" /\ cfg.md.id_regex # "" /\ Len(fetched) >= 3
    /\ Cardinality(DOMAIN jobs_dict) >= 3
    /\ Len(AllExtracted) > Cardinality(DOMAIN jobs_dict)

\* C4: the title stored for an id is the title of the record seen last in fetch order
\* with that id: in jobs_dict after fetch_results, in the list get_unique_results
\* gives after the selenium pagination loop.
C4_LastSeenTitleWins ==
    /\ (cls = "api" /\ pc = "done") =>
           \A k \in DOMAIN jobs_dict : jobs_dict[k] = LastSeenTitle(AllExtracted, k)
    /\ (cls = "legacy" /\ pc = "done") =>
           \A n \in 1..Len(job_containers) :
               job_containers[n].title
                   = LastSeenTitle(AllExtracted, job_containers[n].job_id)

\* An id of the first page is stored with another title than the first page's.
C4_Witness ==
    /\ cls = "api" /\ pc = "done" /\ Len(fetched) >= 2
    /\ \E i \in 1..Len(ExtractedOf(fetched[1])) :
           jobs_dict[Key(ExtractedOf(fetched[1])[i])] # ExtractedOf(fetched[1])[i].title

C6_TransportFailureKeepsAccumulated ==
    (pc \in {"done", "raised"} /\ TransportFailed /\ Accumulated # <<>>) =>
        /\ errors # <<>>
        /\ KeysOf(Accumulated) \subseteq DOMAIN jobs_dict

\* C7: when BrowserInteraction.run has left, by return or by exception, after the
\* driver was started, the driver is stopped and the orphan kill has run.
C7_BrowserReleasedOnEveryExit ==
    (cls = "scrape" /\ run_exit # "none" /\ driver # "none") =>
        driver = "stopped" /\ killed

\* C8: start_driver makes at most STARTING_ATTEMPTS_LIMIT start attempts, can make
\* its next one as long as it runs, and is left with the driver set or with the
\* fatal startup failure raised.
C8_StartDriverTerminates ==
    cls = "scrape" =>
        /\ attempts_made <= STARTING_ATTEMPTS_LIMIT
        /\ (pc = "start_driver" => attempts_made < STARTING_ATTEMPTS_LIMIT /\ driver = "none")
        /\ (pc # "start_driver" =>
               \/ driver # "none"
               \/ run_exit = "raised" /\ errors = <<StartProblem>> /\ pc = "done")

\* Every start attempt failed.
C8_Witness ==
    /\ cls = "scrape" /\ pc = "done" /\ driver = "none"
    /\ errors = <<StartProblem>> /\ attempts_made = STARTING_ATTEMPTS_LIMIT - 1

\* C9: a run of scrape_results or fetch_results that has ended with an empty jobs
\* mapping holds the 'No results were retrieved' message in its error list.
C9_EmptyMappingIsReported ==
    (cls \in {"api", "scrape"} /\ pc \in {"done", "raised"} /\ DOMAIN jobs_dict = {}) =>
        \E i \in 1..Len(errors) : errors[i] = NoResults

\* C10: the batch is never aborted; when it has ended every company of the list has
\* its entry, and each entry holds the errors of that company's own run.
C10_BatchSurvivesFailure ==
    /\ batch # "aborted"
    /\ (batch = "finished" =>
           \A i \in 1..Len(company_list) : company_list[i].name \in DOMAIN today_dict)
    /\ \A n \in DOMAIN own_errors : today_dict[n].errors = own_errors[n]

\* ---------------------------------------------------------------- observers of extraction
\* The containers find_multiple_tags hands to the loop of extract_jobs_from_html.
ContainersOf(page) == find_multiple_tags(page.nodes, cfg.md)

\* The title and the raw id of the container are read and the configured id regex
\* does not match the raw id.
RegexMismatch(md, soup) ==
    /\ md.id_regex # ""
    /\ get_title(md, soup).exc = "none"
    /\ get_job_id(md, soup, get_title(md, soup).val).exc = "none"
    /\ ~re_search_matches(md.id_regex, get_job_id(md, soup, get_title(md, soup).val).val)

HasRegexMismatch(page) ==
    \E i \in 1..Len(ContainersOf(page)) : RegexMismatch(cfg.md, ContainersOf(page)[i])

\* C11: once fetch_results has extracted an HTML payload holding a container whose raw
\* id the configured id regex does not match, the run has been left by an exception.
C11_RegexMismatchFailsHard ==
    (/\ cls = "api" /\ cfg.md.kind = "html"
     /\ \E n \in 1..Len(fetched) : fetched[n].kind # "garbage" /\ HasRegexMismatch(fetched[n]))
        => pc = "raised" /\ exception # "none"

\* A stored key or value is a non-empty string: JSON extraction stores the values
\* get_by_path found, HTML extraction stores strings.
NonEmptyString(x) ==
    IF cfg.md.kind = "json" THEN x.t = "str" /\ x.v # <<>> ELSE x # <<>>

\* C12: when fetch_results has completed, in every extraction mode, every key and every
\* value of jobs_dict is a non-empty string.
C12_NoEmptyTitleOrIdStored ==
    (cls = "api" /\ pc = "done") =>
        \A k \in DOMAIN jobs_dict : NonEmptyString(k) /\ NonEmptyString(jobs_dict[k])

\* The sequence without its i-th element
RemoveAt(s, i) == SubSeq(s, 1, i - 1) \o SubSeq(s, i + 1, Len(s))

\* The loop of extract_jobs_from_html over the containers given
ExtractedFromContainers(containers) ==
    extract_loop(cfg.md, containers, [jobs |-> <<>>, errors |-> <<>>])

\* Building the record of the container raises the ValueError of an empty title or id.
EmptyTitleOrId(md, soup) == HTMLJobContainer(md, soup).exc = "ValueError"

HtmlRun == cls = "api" /\ cfg.md.kind = "html"

OtherException(md, soup) == HTMLJobContainer(md, soup).exc \notin {"none", "ValueError"}

\* C14: for every container of a fetched HTML payload whose record raises another
\* exception than that of an empty title or id, extraction of the payload gives the
\* records it gives for the payload without that container and exactly one message more.
C14_OtherExceptionReportedOnce ==
    HtmlRun =>
        \A n \in 1..Len(fetched) : \A i \in 1..Len(ContainersOf(fetched[n])) :
            OtherException(cfg.md, ContainersOf(fetched[n])[i]) =>
                /\ ExtractedFromContainers(ContainersOf(fetched[n])).jobs
                       = ExtractedFromContainers(RemoveAt(ContainersOf(fetched[n]), i)).jobs
                /\ Len(ExtractedFromContainers(ContainersOf(fetched[n])).errors)
                       = Len(ExtractedFromContainers(RemoveAt(ContainersOf(fetched[n]), i)).errors) + 1

\* ---------------------------------------------------------------- observers of the country filter
JsonRun == cls = "api" /\ cfg.md.kind = "json"

\* `self.metadata.country_path and self.metadata.country_target`
Filtered == cfg.md.country /\ cfg.md.country_target # <<>>

\* The payload was extracted without an exception leaving extract_jobs.
ExtractedOk(page) == extract_jobs(cfg.response_format, cfg.md, page).exc = "none"

\* The elements of the payload's jobs list
ElementsOf(page) ==
    IF get_by_path(page.value, JobsPath).exc = "none"
       /\ get_by_path(page.value, JobsPath).val.t = "list"
    THEN get_by_path(page.value, JobsPath).val.v ELSE <<>>

\* The element's country is a string that equals the expected value, letter case and
\* leading and trailing whitespace of both sides ignored.
CountryMatches(elem) ==
    /\ get_by_path(elem, CountryPath).val.t = "str"
    /\ lower(strip(get_by_path(elem, CountryPath).val.v)) = lower(strip(cfg.md.country_target))

\* Extraction of the payload kept a record for the element.
Kept(page, elem) ==
    \E j \in 1..Len(ExtractedOf(page)) :
        /\ ExtractedOf(page)[j].job_id = get_by_path(elem, IdPath).val
        /\ ExtractedOf(page)[j].title = get_by_path(elem, TitlePath).val

\* C15: with a country filter configured, every element of an extracted JSON payload
\* whose country equals the expected value, case and surrounding whitespace of either
\* side ignored, is kept.
C15_CountryMatchIgnoresCaseAndSpace ==
    (JsonRun /\ Filtered) =>
        \A n \in 1..Len(fetched) : ExtractedOk(fetched[n]) =>
            \A i \in 1..Len(ElementsOf(fetched[n])) :
                CountryMatches(ElementsOf(fetched[n])[i])
                    => Kept(fetched[n], ElementsOf(fetched[n])[i])

\* C16: with a country filter configured, no element of an extracted JSON payload whose
\* country differs from the expected value, the empty string included, is kept; with no
\* filter configured every element is kept.
C16_CountryFilterExcludesOthers ==
    JsonRun =>
        \A n \in 1..Len(fetched) : ExtractedOk(fetched[n]) =>
            IF Filtered
            THEN \A i \in 1..Len(ElementsOf(fetched[n])) :
                     ~CountryMatches(ElementsOf(fetched[n])[i])
                         => ~Kept(fetched[n], ElementsOf(fetched[n])[i])
            ELSE Len(ExtractedOf(fetched[n])) = Len(ElementsOf(fetched[n]))

\* C17: on an iterative API source the n-th fetch is made at start_point + (n-1) *
\* increment; as long as the loop runs one advance was made per fetch, and when it has
\* completed none was made after the last fetch; the cursor is start_point plus the
\* advances made times the increment.
C17_CursorOfNthFetch ==
    (cls = "api" /\ cfg.iterative) =>
        /\ Len(stages) = Len(fetched)
        /\ \A n \in 1..Len(stages) : stages[n] = cfg.start_point + (n - 1) * cfg.increment
        /\ current_stage = cfg.start_point + nadvance * cfg.increment
        /\ (pc = "loop" => nadvance = Len(fetched))
        /\ (pc = "done" => nadvance = Len(fetched) - 1)
        /\ (pc = "raised" => nadvance \in {Len(fetched) - 1, Len(fetched)})

\* Three fetches at 0, 10 and 20; the third converged and the cursor stayed at 20.
C17_Witness ==
    /\ cls = "api" /\ cfg.iterative /\ pc = "done"
    /\ cfg.start_point = 0 /\ cfg.increment = 10
    /\ stages = <<0, 10, 20>> /\ nadvance = 2 /\ current_stage = 20

\* ---------------------------------------------------------------- observers of the browser loops
LoadMoreRun == cls = "scrape" /\ cfg.loading = "load_more"
PaginationRun == cls = "scrape" /\ cfg.loading = "pagination"

\* The page measured by the pass holds no load-more control, or as many content nodes
\* as the measurement before.
LoadMoreShouldStop ==
    button' = "absent" \/ Len(dom'.nodes) = nr_content_tags_old

\* C18: a pass of LoadMoreInteraction's loop leaves the loop without a click when the
\* control is absent or the content-node count equals the previous one; otherwise it
\* clicks once, keeps the count and stays in the loop to measure again (unless the click
\* itself raises). Outside the loop nothing is clicked.
C18_LoadMoreStops ==
    [][LoadMoreRun =>
          /\ pc = "load_more" =>
                IF LoadMoreShouldStop
                THEN pc' = "teardown" /\ nadvance' = nadvance
                ELSE \/ /\ pc' = "load_more"
                        /\ nadvance' = nadvance + 1
                        /\ nr_content_tags_old' = Len(dom'.nodes)
                     \/ /\ pc' = "done" /\ run_exit' = "raised"
                        /\ Last(errors') = BrowserError
                        /\ nadvance' = nadvance
          /\ pc \in {"teardown", "done"} =>
                nadvance' = nadvance /\ pc' # "load_more"]_vars

\* Two clicks, then the control is still there but the count did not grow.
C18_Witness ==
    /\ LoadMoreRun /\ pc = "teardown" /\ nadvance = 2
    /\ button = "found" /\ Len(dom.nodes) = nr_content_tags_old /\ nr_content_tags_old > 0

\* C19: a pass of PaginationInteraction's loop whose next-page lookup finds no control
\* leaves the loop without a click, the page's content captured; one lookup is made per
\* captured page, and with a page-number template the k-th lookup formats start_point +
\* k * increment.
C19_PaginationStopsWithoutButton ==
    /\ [](PaginationRun =>
             /\ Len(stages) = Len(html_list)
             /\ (cfg.paged =>
                    \A k \in 1..Len(stages) :
                        stages[k] = cfg.start_point + k * cfg.increment))
    /\ [][PaginationRun =>
             /\ (pc = "pagination" /\ stages' # stages /\ button' = "absent") =>
                    /\ pc' = "teardown"
                    /\ nadvance' = nadvance
                    /\ html_list' = Append(html_list, dom'.content)
             /\ pc \in {"teardown", "done"} =>
                    fetched' = fetched /\ nadvance' = nadvance /\ pc' # "pagination"]_vars

\* Two pages captured, lookups for pages 2 and 3, the second found no control.
C19_Witness ==
    /\ PaginationRun /\ cfg.paged /\ pc = "teardown" /\ button = "absent"
    /\ Len(html_list) = 2 /\ stages = <<2, 3>> /\ nadvance = 1

\* C20: the loading type of a company is pagination when its configuration holds
\* next_page (with or without load_more), else load-more when it holds load_more, else
\* single-page; CompanyScrape has constructed exactly one interaction, the one of that
\* type, and the fetch loop its run is in is that type's.
C20_StrategySelection ==
    cls \in {"scrape", "legacy"} =>
        /\ ("next_page" \in cfg.company_dict) => cfg.loading = "pagination"
        /\ ("next_page" \notin cfg.company_dict /\ "load_more" \in cfg.company_dict)
               => cfg.loading = "load_more"
        /\ (cfg.company_dict \cap {"next_page", "load_more"} = {}) => cfg.loading = "simple"
        /\ cls = "scrape" =>
               /\ Len(cfg.interactions) = 1
               /\ cfg.interactions[1] =
                      (CASE cfg.loading = "pagination" -> "PaginationInteraction"
                         [] cfg.loading = "load_more" -> "LoadMoreInteraction"
                         [] OTHER -> "SimplePageInteraction")
               /\ (pc \in {"pagination", "load_more", "simple"} => pc = cfg.loading)

\* A configuration with both keys is in the pagination loop, a page captured.
C20_Witness ==
    /\ cls = "scrape" /\ cfg.company_dict = {"next_page", "load_more"}
    /\ pc = "pagination" /\ Len(html_list) = 1

\* ---------------------------------------------------------------- observers of scrape_results
RawIds(jobs) == {jobs[i].job_id : i \in 1..Len(jobs)}
RefinedIds(jobs) == {jobs[i].refined_id : i \in 1..Len(jobs)}

\* scrape_results took its else branch: run returned and the pages were extracted.
ScrapeCompleted == cls = "scrape" /\ pc = "done" /\ run_exit = "returned"

HasError(message) == \E i \in 1..Len(errors) : errors[i] = message

\* C21: when scrape_results has completed after run returned, jobs_dict is keyed by the
\* raw ids and holds the id-refinement error if the distinct refined ids and the
\* distinct raw ids of the extracted records differ in number; otherwise it is keyed by
\* the refined ids and holds no such error.
C21_FallbackToRawIds ==
    ScrapeCompleted =>
        IF Cardinality(RefinedIds(job_containers)) # Cardinality(RawIds(job_containers))
        THEN DOMAIN jobs_dict = RawIds(job_containers) /\ HasError(IdRefinementError)
        ELSE DOMAIN jobs_dict = RefinedIds(job_containers) /\ ~HasError(IdRefinementError)

\* Raw ids r1 and j1 are both refined to 1: the mapping is keyed by the raw ids.
C21_Witness ==
    /\ ScrapeCompleted /\ cfg.md.id_regex # ""
    /\ DOMAIN jobs_dict = {rId("1"), jId("1")}
    /\ HasError(IdRefinementError)

\* ---------------------------------------------------------------- observers of get_by_path
\* The walk as claimed: a sequence reached at any step is returned at once; a key
\* absent from a mapping, or a value that is no mapping, gives none.
RECURSIVE ClaimedWalk(_, _)
ClaimedWalk(d, keys) ==
    IF d.t = "list" THEN d
    ELSE IF keys = <<>> THEN d
    ELSE IF d.t = "dict"
         THEN ClaimedWalk(IF Head(keys) \in DOMAIN d.v THEN d.v[Head(keys)] ELSE JNone,
                          Tail(keys))
         ELSE JNone

\* C22: for every JSON payload fetched, get_by_path on the jobs path returns what the
\* claimed walk gives: none past an absent key or a value that is no mapping, and a
\* sequence reached at any step of the walk as it is.
C22_GetByPathStopsAtSequence ==
    (cls = "api" /\ cfg.response_format = "json") =>
        \A n \in 1..Len(fetched) : fetched[n].kind = "json" =>
            get_by_path(fetched[n].value, JobsPath)
                = Returned(ClaimedWalk(fetched[n].value, JobsPath))

\* ---------------------------------------------------------------- observers of the calls
Called(fn) == cls = "call" /\ args.fn = fn /\ pc = "done"

\* The element matches the tag/attribute rule and holds a descendant of every tag
\* name required.
Retained(element) ==
    /\ element.tag = "main"
    /\ (args.tag_attrs = "key" => element.attr \in {"other", "match"})
    /\ (args.tag_attrs = "key_value" => element.attr = "match")
    /\ (args.md.title_tag => element.node.title_child \in {"other", "match"})
    /\ (args.md.id_tag => element.node.id_child \in {"other", "match"})

\* C23: find_multiple_tags returns exactly the elements of the document that match the
\* tag/attribute rule and hold a descendant of every non-null required tag name, in
\* document order.
C23_FindMultipleTagsRetains ==
    Called("find_multiple_tags") =>
        result = [i \in 1..Len(SelectSeq(args.soup, Retained)) |->
                     SelectSeq(args.soup, Retained)[i].node]

\* With a key=value filter and both children required, one of two elements is kept.
C23_Witness ==
    /\ Called("find_multiple_tags") /\ args.tag_attrs = "key_value"
    /\ args.md.title_tag /\ args.md.id_tag
    /\ Len(args.soup) = 2 /\ args.soup[1].attr = "other" /\ Len(result) = 1

\* C24: what clean_string returns is left unchanged by clean_string.
C24_CleanStringIdempotent ==
    Called("clean_string") => clean_string(result) = result

\* A string with a no-break space, a line break and repeated spaces was normalized.
C24_Witness ==
    /\ Called("clean_string") /\ args.input_string = <<NBSP, "a", "\n", "a">>
    /\ result = <<"a", " ", "a">>

\* ---------------------------------------------------------------- observers of the records
\* A run that extracts HTML records with HTMLJobContainer
HtmlRecordsRun == cls \in {"api", "scrape"} /\ cfg.md.kind = "html"

\* C25: with neither an id tag nor an id attribute location configured, the id of every
\* HTML record extracted equals its title, and the title is normalized.
C25_IdIsNormalizedTitle ==
    (HtmlRecordsRun /\ ~cfg.md.id_tag /\ ~cfg.md.id_tag_attr_location) =>
        \A i \in 1..Len(job_containers) :
            /\ job_containers[i].job_id = job_containers[i].title
            /\ clean_string(job_containers[i].title) = job_containers[i].title

\* The title " d\n" of the payload gave the record with id and title "d".
C25_Witness ==
    /\ cls = "api" /\ pc = "done" /\ ~cfg.md.id_tag /\ ~cfg.md.id_tag_attr_location
    /\ fetched[1].nodes = <<n_r1_d, n_j1_q>>
    /\ DOMAIN jobs_dict = {<<"d">>, <<"q">>} /\ jobs_dict[<<"d">>] = <<"d">>

\* The literal of the regex stands at position p of s and a digit follows it.
MatchAt(lit, s, p) ==
    /\ p + Len(lit) <= Len(s)
    /\ \A k \in 1..Len(lit) : s[p + k - 1] = lit[k]
    /\ s[p + Len(lit)] \in Digits

\* g is the first capture group of the leftmost match of <lit>(\d+) in s: the longest
\* run of digits after the literal at the first position where the regex matches.
IsFirstGroup(lit, s, g) ==
    \E p \in 1..Len(s) :
        /\ MatchAt(lit, s, p)
        /\ \A q \in 1..(p - 1) : ~MatchAt(lit, s, q)
        /\ Len(g) >= 1 /\ p + Len(lit) + Len(g) - 1 <= Len(s)
        /\ \A k \in 1..Len(g) : g[k] = s[p + Len(lit) + k - 1] /\ g[k] \in Digits
        /\ (p + Len(lit) + Len(g) <= Len(s) => s[p + Len(lit) + Len(g)] \notin Digits)

\* C26: get_refined_id returns the raw id when no regex is configured, and the first
\* capture group of the regex applied to the raw id when one is configured and matches;
\* every HTML record extracted without a regex holds its raw id as refined id.
C26_RefinedIdIsFirstGroup ==
    /\ Called("get_refined_id") =>
          /\ args.id_regex = "" => result = Returned(args.job_id)
          /\ (args.id_regex # "" /\ \E p \in 1..Len(args.job_id) :
                  MatchAt(regex_literal(args.id_regex), args.job_id, p))
                 => /\ result.exc = "none"
                    /\ IsFirstGroup(regex_literal(args.id_regex), args.job_id, result.val)
    /\ (HtmlRecordsRun /\ cfg.md.id_regex = "") =>
          \A i \in 1..Len(job_containers) :
              job_containers[i].refined_id = job_containers[i].job_id

\* The regex j(\d+) on the raw id j482 gave 482.
C26_Witness ==
    /\ Called("get_refined_id") /\ args.id_regex = "j(\\d+)"
    /\ args.job_id = <<"j", "4", "8", "2">> /\ result = Returned(<<"4", "8", "2">>)

C29_OneEntryPerRawId ==
    ScrapeCompleted => Cardinality(DOMAIN jobs_dict) = Cardinality(RawIds(job_containers))

\* More than two records of two raw ids, both refined: the mapping is keyed by the
\* two refined ids.
C29_Witness ==
    /\ ScrapeCompleted /\ cfg.md.id_regex # ""
    /\ Cardinality(DOMAIN jobs_dict) = 2
    /\ DOMAIN jobs_dict # RawIds(job_containers)
    /\ Len(job_containers) > 2

\* C30: start_driver raises the fatal startup failure only when exactly
\* STARTING_ATTEMPTS_LIMIT start attempts have failed; after fewer failed attempts
\* it makes the next one.
C30_FailureAfterLimitAttempts ==
    (cls = "scrape" /\ HasError(StartProblem)) => attempts_made = STARTING_ATTEMPTS_LIMIT

\* ---------------------------------------------------------------- observers of the pagination loop
\* The refined ids of the records extracted from a page.
RefinedIdsOfPage(nodes) == RefinedIds(extract_jobs_from_html(cfg.md, nodes).jobs)

\* The i-th page visited holds a job whose refined id is on no page visited before.
HoldsNewJob(i) ==
    \E id \in RefinedIdsOfPage(fetched[i].nodes) :
        \A j \in 1..(i - 1) : id \notin RefinedIdsOfPage(fetched[j].nodes)

\* C31: in a run of PaginationInteraction, every page visited that holds a job whose
\* refined id is on no earlier page has been appended to html_list by the pass that
\* visited it; the loop is left as converged only on a page that adds no new job.
C31_NewJobPageCaptured ==
    PaginationRun =>
        \A i \in 1..Len(fetched) : HoldsNewJob(i) => Len(html_list) >= i

\* ---------------------------------------------------------------- observers of the snapshot
\* The entries of the companies other than company_name are in the snapshot after as
\* they were in the snapshot before.
OthersKept(before, after, company_name) ==
    \A n \in DOMAIN before \ {company_name} : n \in DOMAIN after /\ after[n] = before[n]

\* C32: the update_today_data call of the batch for the company it has just run leaves
\* the job listings and errors of every other company of today's snapshot as they
\* were, in today_dict and in the file written.
C32_UpdateChangesOwnEntryOnly ==
    [][(batch = "running" /\ pc = "done") =>
          /\ OthersKept(today_dict, today_dict', company_list[company_index].name)
          /\ OthersKept(today_dict, read_json_file(today_file'),
                        company_list[company_index].name)
          /\ company_list[company_index].name \in DOMAIN today_dict']_vars

\* The third company's entry was written with errors into a snapshot that held the
\* listings of the first and the entry of the second.
C32_Witness ==
    /\ batch = "running" /\ pc = "idle" /\ Len(company_list) = 3
    /\ DOMAIN today_dict = {"a", "b", "c"}
    /\ DOMAIN today_dict["a"].job_listings # {}
    /\ today_dict["c"].errors # <<>>
    /\ read_json_file(today_file) = today_dict

\* ---------------------------------------------------------------- observers of api_fetcher
\* Every run of main has written its snapshot.
AllFetchersDone == cls = "fetchers" /\ \A p \in FetcherNames : fetchers[p].pc = "done"

\* C33: when the runs of api_fetcher main for two different companies have both
\* written, whatever the order of their read and write steps, today's snapshot holds
\* the entries of both companies.
C33_BothEntriesAfterInterleaving ==
    AllFetchersDone => FetcherNames \subseteq DOMAIN read_json_file(today_file)

\* ---------------------------------------------------------------- observers of the empty run
\* The run of company n on the day in course ended with an empty jobs mapping.
RanEmpty(n) == n \in DOMAIN own_jobs /\ DOMAIN own_jobs[n] = {}

\* C34: on a day of the daily cycle, for a company whose run ended with an empty jobs
\* mapping, today's listings are yesterday's listings when the company is in
\* yesterday's snapshot and are empty when it is not; once refine has run, the new
\* results kept for that company on that day are empty and the mail of the day
\* names no job of it.
C34_EmptyRunFallsBackToYesterday ==
    (cls = "api" /\ day > 0) =>
        \A n \in DOMAIN own_jobs : RanEmpty(n) =>
            /\ n \in DOMAIN today_dict
            /\ today_dict[n].job_listings =
                   IF n \in DOMAIN yesterday_dict THEN yesterday_dict[n].job_listings
                   ELSE <<>>
            /\ Len(refined) = day => DOMAIN history_dict[n][day] = {}
            /\ \A e \in DOMAIN emails :
                   emails[e].day = day => n \notin DOMAIN emails[e].jobs_dict

\* The run of company a found nothing on a day whose yesterday held posting j9 of a:
\* today's listings hold j9, and the mail of the day was sent.
C34_Witness ==
    /\ cls = "api" /\ batch = "refined" /\ RanEmpty("a")
    /\ "a" \in DOMAIN yesterday_dict
    /\ DOMAIN today_dict["a"].job_listings = {jId("9")}
    /\ Len(emails) = day /\ emails[day].day = day

\* ---------------------------------------------------------------- observers of scrape
\* The loop of scrape is at its head, on a company of the list.
AtLoopHead == batch = "running" /\ pc = "idle" /\ company_index <= Len(company_list)

\* C35: at the head of the loop of scrape a company whose name is in today's snapshot
\* is passed over, no run of it is started and the snapshot and its file stay as they
\* are; a run is started only for a company that is not in the snapshot; and no
\* company ever leaves the snapshot, so no company is run twice by a scrape or by a
\* scrape started again on the snapshot an interrupted one left.
C35_ProcessedCompanySkipped ==
    [][cls = "api" =>
          /\ (AtLoopHead /\ company_list[company_index].name \in DOMAIN today_dict) =>
                /\ pc' = "idle" /\ company_index' = company_index + 1
                /\ today_dict' = today_dict /\ today_file' = today_file
                /\ own_jobs' = own_jobs
          /\ (AtLoopHead /\ pc' # "idle") =>
                company_list[company_index].name \notin DOMAIN today_dict
          /\ batch = "running" => DOMAIN today_dict \subseteq DOMAIN today_dict']_vars

\* The scrape found company b in the snapshot: it ran a, passed over b, and is at c.
C35_Witness ==
    /\ AtLoopHead /\ company_index = 3
    /\ "a" \in DOMAIN own_jobs /\ "b" \notin DOMAIN own_jobs
    /\ "b" \in DOMAIN today_dict /\ today_dict["b"] = TodayEntry(<<>>, <<>>)

====
